---- MODULE Spec2Model ----
(***************************************************************************)
(* Model of the rustide-editor crate: the Editor (rope, selection,        *)
(* preferred column, undo/redo history, version, pending edit descriptor) *)
(* and its commands, from crates/rustide-editor/src/editor.rs and          *)
(* selection.rs.                                                           *)
(*                                                                         *)
(* Text is a sequence of characters (one-character strings).  Character   *)
(* offsets are 0-based as in the source; Sequences are 1-based, so the    *)
(* character at offset i is rope[i + 1].                                   *)
(***************************************************************************)
EXTENDS Integers, Sequences, FiniteSets, TLC

\* ------------------------------------------------------------------------
\* Bounds of the model
\* ------------------------------------------------------------------------

\* Longest buffer (in characters) an edit may produce.
MaxLen == 4

\* Number of committed mutations (edits, undos, redos) explored.  The version
\* is a u64 advanced with wrapping_add(1): it wraps only after 2^64 commits,
\* far beyond this bound, so version + 1 is exact here.
MaxVersion == 3

\* Number of effective cursor/selection commands (ViewCmds) explored in one run.
MaxViews == 1

\* Number of cursor commands explored in one run of SpecMove.
MaxMoves == 3

\* Longest buffer (in characters) explored in SpecIndent.
MaxIndentLen == 20

\* Longest buffer (in characters) explored in SpecSyntax.
MaxSyntaxLen == 2

\* Number of clock advances explored in one run of SpecSyntax.
MaxTicks == 2

\* Number of load / save calls explored in one run of SpecCodec.
MaxCodecSteps == 2

\* Longest text (in characters) of a document that SpecCodec starts from.
MaxTextLen == 2

\* Longest byte sequence, after the BOM if there is one, of a file that
\* SpecCodec starts from.
MaxRestLen == 2

\* Texts handed to Editor::from_text.
InitTexts == { <<>>, <<"}">> }

\* Texts handed to Editor::insert_text.
InsertTexts == { <<>>, <<"{">>, <<"é", "\n">> }

\* Texts of several lines of different lengths, for the cursor commands:
\* "aa\nbbbb\ncc", "bbb\n\na" and "ab\r\nccc".
MoveTexts ==
    { << "a", "a", "\n", "b", "b", "b", "b", "\n", "c", "c" >>,
      << "b", "b", "b", "\n", "\n", "a" >>,
      << "a", "b", "\r", "\n", "c", "c", "c" >> }

\* Indented lines and braces, for insert_newline_auto_indent: "{\n}",
\* "    let x = 1;", "    }", "\t{ ", "  \t}", "\t }", "{ }", "{}" and "\t{}".
IndentTexts ==
    { << "{", "\n", "}" >>,
      << " ", " ", " ", " ", "l", "e", "t", " ", "x", " ", "=", " ", "1", ";" >>,
      << " ", " ", " ", " ", "}" >>,
      << "\t", "{", " " >>,
      << " ", " ", "\t", "}" >>,
      << "\t", " ", "}" >>,
      << "{", " ", "}" >>,
      << "{", "}" >>,
      << "\t", "{", "}" >> }

\* Texts of the documents SpecSyntax opens.
SyntaxTexts == { <<>>, <<"a">> }

\* Texts typed in SpecSyntax.
SyntaxInserts == { <<"a">> }

\* Characters of the documents SpecCodec starts from: 'A', U+00D7 (in GBK and
\* in Big5), U+00E9 (in GBK, not in Big5) and U+FEFF (in neither).
CodecChars == { 65, 215, 233, 65279 }

\* Bytes following the BOM of a file: NUL, 'A', the UTF-8 bytes of U+00E9
\* (C3 A9) and the bytes the three BOMs are made of (EF BB BF, FF FE).
RestBytes == { 0, 65, 195, 169, 239, 187, 191, 254, 255 }

\* Bytes of a file without BOM: 'A', 80 (U+20AC in GBK, invalid in Big5), EF
\* and BB.
RawBytes == { 65, 128, 239, 187 }

\* ------------------------------------------------------------------------
\* Rope (ropey::Rope as the editor uses it)
\* ------------------------------------------------------------------------

Min(a, b) == IF a <= b THEN a ELSE b

\* The sequences over alphabet of length up to n.
RECURSIVE SeqsUpTo(_, _)
SeqsUpTo(alphabet, n) ==
    IF n = 0 THEN { <<>> }
    ELSE SeqsUpTo(alphabet, n - 1)
             \cup { Append(q, a) : q \in SeqsUpTo(alphabet, n - 1), a \in alphabet }

Max(a, b) == IF a >= b THEN a ELSE b

\* usize::saturating_sub
saturating_sub(a, b) == IF a >= b THEN a - b ELSE 0

len_chars(r) == Len(r)

\* rope.slice(a..b) for 0 <= a <= b <= len_chars
slice(r, a, b) == SubSeq(r, a + 1, b)

\* rope.char(i)
char_at(r, i) == r[i + 1]

\* rope.remove(a..b)
rope_remove(r, a, b) == slice(r, 0, a) \o slice(r, b, Len(r))

\* rope.insert(at, text)
rope_insert(r, at, text) == slice(r, 0, at) \o text \o slice(r, at, Len(r))

\* Number of line breaks in the first idx characters.
breaks_before(r, idx) == Cardinality({ i \in 1..idx : r[i] = "\n" })

\* rope.len_lines(): one more than the number of line breaks.
len_lines(r) == breaks_before(r, Len(r)) + 1

\* rope.char_to_line(idx)
char_to_line(r, idx) == breaks_before(r, idx)

\* rope.line_to_char(line): offset of the first character of the line;
\* line_to_char(len_lines) is len_chars.
line_to_char(r, line) ==
    IF line = 0 THEN 0
    ELSE IF line >= len_lines(r) THEN Len(r)
    ELSE CHOOSE i \in 1..Len(r) : r[i] = "\n" /\ breaks_before(r, i) = line

\* rope.line(line).len_chars(), terminator included
line_len_chars(r, line) == line_to_char(r, line + 1) - line_to_char(r, line)

\* UTF-8 length of one character.
len_utf8(ch) == IF ch = "é" THEN 2 ELSE 1

RECURSIVE byte_len(_)
byte_len(s) == IF s = <<>> THEN 0 ELSE len_utf8(Head(s)) + byte_len(Tail(s))

\* rope.char_to_byte(idx)
char_to_byte(r, idx) == byte_len(slice(r, 0, idx))

\* ------------------------------------------------------------------------
\* Selection
\* ------------------------------------------------------------------------

collapsed(pos) == [anchor |-> pos, cursor |-> pos]

is_empty(sel) == sel.anchor = sel.cursor

range(sel) ==
    IF sel.anchor <= sel.cursor
    THEN [start |-> sel.anchor, end |-> sel.cursor]
    ELSE [start |-> sel.cursor, end |-> sel.anchor]

sel_set_cursor(sel, cursor, extend) ==
    [anchor |-> IF extend THEN sel.anchor ELSE cursor, cursor |-> cursor]

collapse_to(sel, pos) == [anchor |-> pos, cursor |-> pos]

\* Option<T>: None is the empty sequence, Some(x) is <<x>>.
None == <<>>

Some(x) == <<x>>

unwrap_or(opt, d) == IF opt = <<>> THEN d ELSE opt[1]

\* ------------------------------------------------------------------------
\* Editor: pure transformers of the editor record
\*   e = [rope, selection, preferred_column, history, version, last_edit]
\* ------------------------------------------------------------------------

\* Editor::from_text
from_text(text) ==
    [ rope             |-> text,
      selection        |-> collapsed(0),
      preferred_column |-> None,
      history          |-> [undo |-> <<>>, redo |-> <<>>],
      version          |-> 0,
      last_edit        |-> None ]

\* point_for_char: (row, byte column) of a character offset
point_for_char(r, char_idx) ==
    LET idx             == Min(char_idx, len_chars(r))
        row             == char_to_line(r, idx)
        line_start_char == line_to_char(r, row)
        line_start_byte == char_to_byte(r, line_start_char)
    IN  [ row    |-> row,
          column |-> saturating_sub(char_to_byte(r, idx), line_start_byte) ]

\* apply_raw_edit that takes the old end's point from the text after the edit.
apply_raw_edit_old_end_after(r, start0, remove_len_chars, inserted) ==
    LET start   == Min(start0, len_chars(r))
        old_end == Min(start + remove_len_chars, len_chars(r))
        removed == start < old_end
        r1      == IF removed THEN rope_remove(r, start, old_end) ELSE r
        r2      == IF inserted # <<>> THEN rope_insert(r1, start, inserted) ELSE r1
        new_end == Min(start + Len(inserted), len_chars(r2))
    IN  [ rope |-> r2,
          info |-> [ start_byte      |-> char_to_byte(r, start),
                     old_end_byte    |-> char_to_byte(r, old_end),
                     new_end_byte    |-> char_to_byte(r2, new_end),
                     start_point     |-> point_for_char(r, start),
                     old_end_point   |-> point_for_char(r2, old_end),
                     new_end_point   |-> point_for_char(r2, new_end) ] ]

\* Editor::apply_raw_edit: the rope after the edit and the EditorEdit describing it
apply_raw_edit(r, start0, remove_len_chars, inserted) ==
    LET start   == Min(start0, len_chars(r))
        old_end == Min(start + remove_len_chars, len_chars(r))
        removed == start < old_end
        r1      == IF removed THEN rope_remove(r, start, old_end) ELSE r
        r2      == IF inserted # <<>> THEN rope_insert(r1, start, inserted) ELSE r1
        new_end == Min(start + Len(inserted), len_chars(r2))
    IN  [ rope |-> r2,
          info |-> [ start_byte      |-> char_to_byte(r, start),
                     old_end_byte    |-> char_to_byte(r, old_end),
                     new_end_byte    |-> char_to_byte(r2, new_end),
                     start_point     |-> point_for_char(r, start),
                     old_end_point   |-> point_for_char(r, old_end),
                     new_end_point   |-> point_for_char(r2, new_end) ] ]

\* replace_range that keeps the redo stack when it pushes the new record.
replace_range_keeps_redo(e, rstart, rend, inserted) ==
    LET start == Min(rstart, len_chars(e.rope))
        end   == Min(rend, len_chars(e.rope))
    IN  IF start = end /\ inserted = <<>> THEN e
        ELSE
        LET res    == apply_raw_edit(e.rope, start, end - start, inserted)
            after  == collapsed(start + Len(inserted))
            record == [ start    |-> start,
                        inserted |-> inserted,
                        deleted  |-> IF start = end THEN <<>> ELSE slice(e.rope, start, end),
                        before   |-> e.selection,
                        after    |-> after ]
        IN  [ rope             |-> res.rope,
              selection        |-> after,
              preferred_column |-> None,
              history          |-> [ undo |-> Append(e.history.undo, record),
                                     redo |-> e.history.redo ],
              version          |-> e.version + 1,
              last_edit        |-> Some(res.info) ]

\* replace_range that edits the buffer and bumps the version without pushing a
\* record.
replace_range_no_record(e, rstart, rend, inserted) ==
    LET start == Min(rstart, len_chars(e.rope))
        end   == Min(rend, len_chars(e.rope))
    IN  IF start = end /\ inserted = <<>> THEN e
        ELSE
        LET res == apply_raw_edit(e.rope, start, end - start, inserted)
        IN  [ rope             |-> res.rope,
              selection        |-> collapsed(start + Len(inserted)),
              preferred_column |-> None,
              history          |-> [ undo |-> e.history.undo, redo |-> <<>> ],
              version          |-> e.version + 1,
              last_edit        |-> Some(res.info) ]

\* Editor::replace_range
\* replace_range whose record starts where the replaced range ended.
replace_range_records_end(e, rstart, rend, inserted) ==
    LET start == Min(rstart, len_chars(e.rope))
        end   == Min(rend, len_chars(e.rope))
    IN  IF start = end /\ inserted = <<>> THEN e
        ELSE
        LET before  == e.selection
            deleted == IF start = end THEN <<>> ELSE slice(e.rope, start, end)
            res     == apply_raw_edit(e.rope, start, end - start, inserted)
            after   == collapsed(start + Len(inserted))
            record  == [ start    |-> end,
                         inserted |-> inserted,
                         deleted  |-> deleted,
                         before   |-> before,
                         after    |-> after ]
        IN  [ rope             |-> res.rope,
              selection        |-> after,
              preferred_column |-> None,
              history          |-> [ undo |-> Append(e.history.undo, record),
                                     redo |-> <<>> ],
              version          |-> e.version + 1,
              last_edit        |-> Some(res.info) ]

replace_range(e, rstart, rend, inserted) ==
    LET start == Min(rstart, len_chars(e.rope))
        end   == Min(rend, len_chars(e.rope))
    IN  IF start = end /\ inserted = <<>> THEN e
        ELSE
        LET before  == e.selection
            deleted == IF start = end THEN <<>> ELSE slice(e.rope, start, end)
            res     == apply_raw_edit(e.rope, start, end - start, inserted)
            after   == collapsed(start + Len(inserted))
            record  == [ start    |-> start,
                         inserted |-> inserted,
                         deleted  |-> deleted,
                         before   |-> before,
                         after    |-> after ]
        IN  [ rope             |-> res.rope,
              selection        |-> after,
              preferred_column |-> None,
              history          |-> [ undo |-> Append(e.history.undo, record),
                                     redo |-> <<>> ],
              version          |-> e.version + 1,
              last_edit        |-> Some(res.info) ]

\* insert_text that bumps the version before it looks at its arguments.
insert_text_bumps_first(e, text) ==
    LET rg == range(e.selection)
    IN  IF text = <<>> /\ rg.start = rg.end THEN [e EXCEPT !.version = @ + 1]
        ELSE replace_range(e, rg.start, rg.end, text)

\* insert_text that inserts at the cursor and leaves the selected text alone.
insert_text_at_cursor(e, text) ==
    IF text = <<>> /\ is_empty(e.selection) THEN e
    ELSE replace_range(e, e.selection.cursor, e.selection.cursor, text)

\* Editor::insert_text
insert_text(e, text) ==
    LET rg == range(e.selection)
    IN  IF text = <<>> /\ rg.start = rg.end THEN e
        ELSE replace_range(e, rg.start, rg.end, text)

\* Editor::set_cursor
set_cursor(e, pos, extend) ==
    LET cursor == Min(pos, len_chars(e.rope))
    IN  [ e EXCEPT !.selection        = sel_set_cursor(e.selection, cursor, extend),
                   !.preferred_column = IF extend THEN @ ELSE None ]

\* Editor::select_all
select_all(e) ==
    [ e EXCEPT !.selection        = [anchor |-> 0, cursor |-> len_chars(e.rope)],
               !.preferred_column = None ]

\* select_range that does not clamp its arguments to the buffer.
select_range_unclamped(e, rstart, rend) ==
    [ e EXCEPT !.selection        = [anchor |-> rstart, cursor |-> rend],
               !.preferred_column = None ]

\* Editor::select_range
select_range(e, rstart, rend) ==
    [ e EXCEPT !.selection        = [ anchor |-> Min(rstart, len_chars(e.rope)),
                                      cursor |-> Min(rend, len_chars(e.rope)) ],
               !.preferred_column = None ]

\* Editor::take_last_edit (Option::take): the returned descriptor and the
\* editor after the call
take_last_edit(e) ==
    [ returns |-> e.last_edit, editor |-> [ e EXCEPT !.last_edit = None ] ]

\* backspace that deletes the character before the cursor even when text is
\* selected.
backspace_ignores_selection(e) ==
    LET cursor == e.selection.cursor
    IN  IF cursor = 0 THEN e
        ELSE replace_range(e, cursor - 1, cursor, <<>>)

\* Editor::backspace
backspace(e) ==
    LET rg     == range(e.selection)
        cursor == e.selection.cursor
    IN  IF rg.start # rg.end THEN replace_range(e, rg.start, rg.end, <<>>)
        ELSE IF cursor = 0 THEN e
        ELSE replace_range(e, cursor - 1, cursor, <<>>)

\* Editor::delete_forward
delete_forward(e) ==
    LET rg     == range(e.selection)
        cursor == e.selection.cursor
    IN  IF rg.start # rg.end THEN replace_range(e, rg.start, rg.end, <<>>)
        ELSE IF cursor >= len_chars(e.rope) THEN e
        ELSE replace_range(e, cursor, cursor + 1, <<>>)

\* undo that removes charCount(deleted) characters instead of charCount(inserted).
undo_swapped_len(e) ==
    IF e.history.undo = <<>> THEN [returns |-> FALSE, editor |-> e]
    ELSE
    LET n    == Len(e.history.undo)
        edit == e.history.undo[n]
        res  == apply_raw_edit(e.rope, edit.start, Len(edit.deleted), edit.deleted)
    IN  [ returns |-> TRUE,
          editor  |->
            [ rope             |-> res.rope,
              selection        |-> edit.before,
              preferred_column |-> None,
              history          |-> [ undo |-> SubSeq(e.history.undo, 1, n - 1),
                                     redo |-> Append(e.history.redo, edit) ],
              version          |-> e.version + 1,
              last_edit        |-> Some(res.info) ] ]

\* undo that leaves the selection where the undone edit put it.
undo_keeps_selection(e) ==
    IF e.history.undo = <<>> THEN [returns |-> FALSE, editor |-> e]
    ELSE
    LET n    == Len(e.history.undo)
        edit == e.history.undo[n]
        res  == apply_raw_edit(e.rope, edit.start, Len(edit.inserted), edit.deleted)
    IN  [ returns |-> TRUE,
          editor  |->
            [ rope             |-> res.rope,
              selection        |-> edit.after,
              preferred_column |-> None,
              history          |-> [ undo |-> SubSeq(e.history.undo, 1, n - 1),
                                     redo |-> Append(e.history.redo, edit) ],
              version          |-> e.version + 1,
              last_edit        |-> Some(res.info) ] ]

\* undo that drops the popped record instead of pushing it onto the redo stack.
undo_drops_record(e) ==
    IF e.history.undo = <<>> THEN [returns |-> FALSE, editor |-> e]
    ELSE
    LET n    == Len(e.history.undo)
        edit == e.history.undo[n]
        res  == apply_raw_edit(e.rope, edit.start, Len(edit.inserted), edit.deleted)
    IN  [ returns |-> TRUE,
          editor  |->
            [ rope             |-> res.rope,
              selection        |-> edit.before,
              preferred_column |-> None,
              history          |-> [ undo |-> SubSeq(e.history.undo, 1, n - 1),
                                     redo |-> e.history.redo ],
              version          |-> e.version + 1,
              last_edit        |-> Some(res.info) ] ]

\* undo that clears the cached preferred column before it looks at the stack.
undo_clears_column_first(e) ==
    IF e.history.undo = <<>>
    THEN [returns |-> FALSE, editor |-> [e EXCEPT !.preferred_column = None]]
    ELSE
    LET n    == Len(e.history.undo)
        edit == e.history.undo[n]
        res  == apply_raw_edit(e.rope, edit.start, Len(edit.inserted), edit.deleted)
    IN  [ returns |-> TRUE,
          editor  |->
            [ rope             |-> res.rope,
              selection        |-> edit.before,
              preferred_column |-> None,
              history          |-> [ undo |-> SubSeq(e.history.undo, 1, n - 1),
                                     redo |-> Append(e.history.redo, edit) ],
              version          |-> e.version + 1,
              last_edit        |-> Some(res.info) ] ]

\* undo that restores the version along with the text.
undo_restores_version(e) ==
    IF e.history.undo = <<>> THEN [returns |-> FALSE, editor |-> e]
    ELSE
    LET n    == Len(e.history.undo)
        edit == e.history.undo[n]
        res  == apply_raw_edit(e.rope, edit.start, Len(edit.inserted), edit.deleted)
    IN  [ returns |-> TRUE,
          editor  |->
            [ rope             |-> res.rope,
              selection        |-> edit.before,
              preferred_column |-> None,
              history          |-> [ undo |-> SubSeq(e.history.undo, 1, n - 1),
                                     redo |-> Append(e.history.redo, edit) ],
              version          |-> e.version - 1,
              last_edit        |-> Some(res.info) ] ]

\* Editor::undo: the returned bool and the editor after the call
undo(e) ==
    IF e.history.undo = <<>> THEN [returns |-> FALSE, editor |-> e]
    ELSE
    LET n    == Len(e.history.undo)
        edit == e.history.undo[n]
        res  == apply_raw_edit(e.rope, edit.start, Len(edit.inserted), edit.deleted)
    IN  [ returns |-> TRUE,
          editor  |->
            [ rope             |-> res.rope,
              selection        |-> edit.before,
              preferred_column |-> None,
              history          |-> [ undo |-> SubSeq(e.history.undo, 1, n - 1),
                                     redo |-> Append(e.history.redo, edit) ],
              version          |-> e.version + 1,
              last_edit        |-> Some(res.info) ] ]

\* redo that does not bump the version.
redo_keeps_version(e) ==
    IF e.history.redo = <<>> THEN [returns |-> FALSE, editor |-> e]
    ELSE
    LET n    == Len(e.history.redo)
        edit == e.history.redo[n]
        res  == apply_raw_edit(e.rope, edit.start, Len(edit.deleted), edit.inserted)
    IN  [ returns |-> TRUE,
          editor  |->
            [ rope             |-> res.rope,
              selection        |-> edit.after,
              preferred_column |-> None,
              history          |-> [ undo |-> Append(e.history.undo, edit),
                                     redo |-> SubSeq(e.history.redo, 1, n - 1) ],
              version          |-> e.version,
              last_edit        |-> Some(res.info) ] ]

\* redo that leaves the pending descriptor as it found it.
redo_keeps_descriptor(e) ==
    IF e.history.redo = <<>> THEN [returns |-> FALSE, editor |-> e]
    ELSE
    LET n    == Len(e.history.redo)
        edit == e.history.redo[n]
        res  == apply_raw_edit(e.rope, edit.start, Len(edit.deleted), edit.inserted)
    IN  [ returns |-> TRUE,
          editor  |->
            [ rope             |-> res.rope,
              selection        |-> edit.after,
              preferred_column |-> None,
              history          |-> [ undo |-> Append(e.history.undo, edit),
                                     redo |-> SubSeq(e.history.redo, 1, n - 1) ],
              version          |-> e.version + 1,
              last_edit        |-> e.last_edit ] ]

\* Editor::redo: the returned bool and the editor after the call
redo(e) ==
    IF e.history.redo = <<>> THEN [returns |-> FALSE, editor |-> e]
    ELSE
    LET n    == Len(e.history.redo)
        edit == e.history.redo[n]
        res  == apply_raw_edit(e.rope, edit.start, Len(edit.deleted), edit.inserted)
    IN  [ returns |-> TRUE,
          editor  |->
            [ rope             |-> res.rope,
              selection        |-> edit.after,
              preferred_column |-> None,
              history          |-> [ undo |-> Append(e.history.undo, edit),
                                     redo |-> SubSeq(e.history.redo, 1, n - 1) ],
              version          |-> e.version + 1,
              last_edit        |-> Some(res.info) ] ]

\* Editor::cursor_line_col
cursor_line_col(e) ==
    LET cursor == Min(e.selection.cursor, len_chars(e.rope))
        line   == char_to_line(e.rope, cursor)
    IN  [ line |-> line,
          col  |-> saturating_sub(cursor, line_to_char(e.rope, line)) ]

\* line_visible_len that strips the "\n" only.
line_visible_len_keeps_cr(r, line) ==
    LET start == line_to_char(r, line)
        len   == line_len_chars(r, line)
    IN  IF len = 0 THEN 0
        ELSE IF char_at(r, start + len - 1) = "\n" THEN len - 1
        ELSE len

\* Editor::line_visible_len: the line's length without "\n" and a "\r" before it
line_visible_len(r, line) ==
    LET start == line_to_char(r, line)
        len   == line_len_chars(r, line)
    IN  IF len = 0 THEN 0
        ELSE IF char_at(r, start + len - 1) = "\n"
        THEN IF len - 1 > 0 /\ char_at(r, start + len - 2) = "\r"
             THEN len - 2
             ELSE len - 1
        ELSE len

\* move_left that collapses a selection to its cursor.
move_left_collapses_to_cursor(e, extend) ==
    IF ~extend /\ ~is_empty(e.selection)
    THEN [ e EXCEPT !.selection        = collapse_to(@, e.selection.cursor),
                    !.preferred_column = None ]
    ELSE [ e EXCEPT !.selection        =
                        sel_set_cursor(@, saturating_sub(e.selection.cursor, 1), extend),
                    !.preferred_column = IF extend THEN @ ELSE None ]

\* Editor::move_left
move_left(e, extend) ==
    IF ~extend /\ ~is_empty(e.selection)
    THEN [ e EXCEPT !.selection        = collapse_to(@, range(e.selection).start),
                    !.preferred_column = None ]
    ELSE [ e EXCEPT !.selection        =
                        sel_set_cursor(@, saturating_sub(e.selection.cursor, 1), extend),
                    !.preferred_column = IF extend THEN @ ELSE None ]

\* Editor::move_right
move_right(e, extend) ==
    IF ~extend /\ ~is_empty(e.selection)
    THEN [ e EXCEPT !.selection        = collapse_to(@, range(e.selection).end),
                    !.preferred_column = None ]
    ELSE [ e EXCEPT !.selection        =
                        sel_set_cursor(@, Min(e.selection.cursor + 1, len_chars(e.rope)),
                                       extend),
                    !.preferred_column = IF extend THEN @ ELSE None ]

\* Editor::move_line_start
move_line_start(e, extend) ==
    LET start == line_to_char(e.rope, cursor_line_col(e).line)
    IN  [ e EXCEPT !.selection        = sel_set_cursor(@, start, extend),
                   !.preferred_column = IF extend THEN @ ELSE None ]

\* Editor::move_line_end
move_line_end(e, extend) ==
    LET line == cursor_line_col(e).line
        end  == line_to_char(e.rope, line) + line_visible_len(e.rope, line)
    IN  [ e EXCEPT !.selection        = sel_set_cursor(@, end, extend),
                   !.preferred_column = IF extend THEN @ ELSE None ]

\* move_vertical that caches the clamped column instead of the desired one.
move_vertical_caches_clamped(e, delta_lines, extend) ==
    LET cursor      == Min(e.selection.cursor, len_chars(e.rope))
        lc          == cursor_line_col(e)
        desired     == unwrap_or(e.preferred_column, lc.col)
        target_line == IF delta_lines < 0
                       THEN saturating_sub(lc.line, -delta_lines)
                       ELSE Min(lc.line + delta_lines,
                                saturating_sub(len_lines(e.rope), 1))
        line_start  == line_to_char(e.rope, target_line)
        line_col    == Min(desired, line_visible_len(e.rope, target_line))
        next        == Min(line_start + line_col, len_chars(e.rope))
    IN  [ e EXCEPT !.selection        = sel_set_cursor(@, next, extend),
                   !.preferred_column = IF ~extend /\ cursor = next
                                        THEN None
                                        ELSE Some(line_col) ]

\* Editor::move_vertical, delta_lines is -1 (move_up) or 1 (move_down)
move_vertical(e, delta_lines, extend) ==
    LET cursor      == Min(e.selection.cursor, len_chars(e.rope))
        lc          == cursor_line_col(e)
        desired     == unwrap_or(e.preferred_column, lc.col)
        target_line == IF delta_lines < 0
                       THEN saturating_sub(lc.line, -delta_lines)
                       ELSE Min(lc.line + delta_lines,
                                saturating_sub(len_lines(e.rope), 1))
        line_start  == line_to_char(e.rope, target_line)
        line_col    == Min(desired, line_visible_len(e.rope, target_line))
        next        == Min(line_start + line_col, len_chars(e.rope))
    IN  [ e EXCEPT !.selection        = sel_set_cursor(@, next, extend),
                   !.preferred_column = IF ~extend /\ cursor = next
                                        THEN None
                                        ELSE Some(desired) ]

\* Editor::move_up
move_up(e, extend) == move_vertical(e, -1, extend)

\* Editor::move_down
move_down(e, extend) == move_vertical(e, 1, extend)

\* char::is_whitespace, on the characters of the model
is_whitespace(ch) == ch \in { " ", "\t", "\n", "\r" }

\* str::trim_end_matches(char::is_whitespace)
RECURSIVE trim_end(_)
trim_end(s) ==
    IF s # <<>> /\ is_whitespace(s[Len(s)]) THEN trim_end(SubSeq(s, 1, Len(s) - 1)) ELSE s

\* str::trim_start_matches(char::is_whitespace)
RECURSIVE trim_start(_)
trim_start(s) ==
    IF s # <<>> /\ is_whitespace(Head(s)) THEN trim_start(Tail(s)) ELSE s

ends_with(s, ch) == s # <<>> /\ s[Len(s)] = ch

starts_with(s, ch) == s # <<>> /\ Head(s) = ch

\* The indent unit of insert_newline_auto_indent: four spaces.
indent_unit == << " ", " ", " ", " " >>

\* leading_indent: the run of spaces and tabs from start, inside [start, end)
RECURSIVE leading_indent(_, _, _)
leading_indent(r, start, end) ==
    LET pos  == Min(Min(start, end), len_chars(r))
        end1 == Min(end, len_chars(r))
    IN  IF pos < end1 /\ char_at(r, pos) \in { " ", "\t" }
        THEN << char_at(r, pos) >> \o leading_indent(r, pos + 1, end1)
        ELSE <<>>

\* str::strip_suffix: <<s without the suffix>> or None
strip_suffix(s, suffix) ==
    IF Len(s) >= Len(suffix) /\ SubSeq(s, Len(s) - Len(suffix) + 1, Len(s)) = suffix
    THEN Some(SubSeq(s, 1, Len(s) - Len(suffix)))
    ELSE None

\* decrease_indent
decrease_indent(indent, unit) ==
    IF strip_suffix(indent, unit) # None THEN strip_suffix(indent, unit)[1]
    ELSE IF strip_suffix(indent, << "\t" >>) # None THEN strip_suffix(indent, << "\t" >>)[1]
    ELSE indent

\* insert_newline_auto_indent that never decreases the indentation before a
\* closing brace.
insert_newline_never_decreases(e) ==
    LET r           == e.rope
        cursor      == Min(e.selection.cursor, len_chars(r))
        line_index  == char_to_line(r, cursor)
        line_start  == line_to_char(r, line_index)
        line_end    == line_start + line_visible_len(r, line_index)
        base_indent == leading_indent(r, line_start, line_end)
        before      == slice(r, line_start, Min(cursor, line_end))
        after       == slice(r, Min(cursor, line_end), line_end)
        before_trim == trim_end(before)
        after_trim  == trim_start(after)
        opens       == ends_with(before_trim, "{")
        closes      == starts_with(after_trim, "}")
        next_indent == IF opens THEN base_indent \o indent_unit ELSE base_indent
    IN  IF opens /\ closes
        THEN set_cursor(insert_text(e, << "\n" >> \o next_indent \o << "\n" >> \o base_indent),
                        cursor + 1 + Len(next_indent), FALSE)
        ELSE insert_text(e, << "\n" >> \o next_indent)

\* Editor::insert_newline_auto_indent
insert_newline_auto_indent(e) ==
    LET r           == e.rope
        cursor      == Min(e.selection.cursor, len_chars(r))
        line_index  == char_to_line(r, cursor)
        line_start  == line_to_char(r, line_index)
        line_end    == line_start + line_visible_len(r, line_index)
        base_indent == leading_indent(r, line_start, line_end)
        before      == slice(r, line_start, Min(cursor, line_end))
        after       == slice(r, Min(cursor, line_end), line_end)
        before_trim == trim_end(before)
        after_trim  == trim_start(after)
        opens       == ends_with(before_trim, "{")
        closes      == starts_with(after_trim, "}")
        next_indent == IF closes THEN decrease_indent(base_indent, indent_unit)
                       ELSE IF opens THEN base_indent \o indent_unit
                       ELSE base_indent
    IN  IF opens /\ closes
        THEN set_cursor(insert_text(e, << "\n" >> \o next_indent \o << "\n" >> \o base_indent),
                        cursor + 1 + Len(next_indent), FALSE)
        ELSE insert_text(e, << "\n" >> \o next_indent)

\* ------------------------------------------------------------------------
\* Encoding codec (document.rs)
\*
\* Bytes are the integers 0..255 and a text is a sequence of code points.
\* TextEncodingHint is one of "Auto", "Utf8", "Utf16Le", "Utf16Be", "Gbk",
\* "Big5"; TextEncoding one of "Utf8", "Utf8Bom", "Utf16Le", "Utf16Be", "Gbk",
\* "Big5".  The encoding_rs encodings are "UTF_8", "UTF_16LE", "UTF_16BE",
\* "GBK", "BIG5".
\* ------------------------------------------------------------------------

\* U+FFFD REPLACEMENT CHARACTER, what lossy decoding puts for invalid bytes.
REPLACEMENT == 65533

\* Stands for the character of a double-byte sequence that is outside the
\* part of the GBK / Big5 index tabulated below.
UNTABULATED == 0 - 1

UTF8_BOM == << 239, 187, 191 >>

UTF16LE_BOM == << 255, 254 >>

UTF16BE_BOM == << 254, 255 >>

\* <[u8]>::strip_prefix
strip_prefix(bytes, prefix) ==
    IF Len(bytes) >= Len(prefix) /\ SubSeq(bytes, 1, Len(prefix)) = prefix
    THEN Some(SubSeq(bytes, Len(prefix) + 1, Len(bytes)))
    ELSE None

\* char::encode_utf8
utf8_encode_char(c) ==
    IF c < 128 THEN << c >>
    ELSE IF c < 2048 THEN << 192 + (c \div 64), 128 + (c % 64) >>
    ELSE IF c < 65536
    THEN << 224 + (c \div 4096), 128 + ((c \div 64) % 64), 128 + (c % 64) >>
    ELSE << 240 + (c \div 262144), 128 + ((c \div 4096) % 64),
            128 + ((c \div 64) % 64), 128 + (c % 64) >>

\* str::as_bytes: the UTF-8 bytes of a text
RECURSIVE as_bytes(_)
as_bytes(text) ==
    IF text = <<>> THEN <<>> ELSE utf8_encode_char(Head(text)) \o as_bytes(Tail(text))

\* UTF-8 decoding with each invalid sequence (a maximal prefix of a valid
\* sequence, or one byte) replaced by U+FFFD.
RECURSIVE utf8_decode(_)
utf8_decode(b) ==
    IF b = <<>> THEN [text |-> <<>>, had_errors |-> FALSE]
    ELSE
    LET b1        == b[1]
        width     == IF b1 < 128 THEN 1
                     ELSE IF b1 \in 194..223 THEN 2
                     ELSE IF b1 \in 224..239 THEN 3
                     ELSE IF b1 \in 240..244 THEN 4
                     ELSE 0
        second_ok == /\ Len(b) >= 2
                     /\ IF b1 = 224 THEN b[2] \in 160..191
                        ELSE IF b1 = 237 THEN b[2] \in 128..159
                        ELSE IF b1 = 240 THEN b[2] \in 144..191
                        ELSE IF b1 = 244 THEN b[2] \in 128..143
                        ELSE b[2] \in 128..191
        third_ok  == Len(b) >= 3 /\ b[3] \in 128..191
        fourth_ok == Len(b) >= 4 /\ b[4] \in 128..191
        valid_len == IF width <= 1 THEN width
                     ELSE IF ~second_ok THEN 1
                     ELSE IF width = 2 THEN 2
                     ELSE IF ~third_ok THEN 2
                     ELSE IF width = 3 THEN 3
                     ELSE IF ~fourth_ok THEN 3
                     ELSE 4
        complete  == width > 0 /\ valid_len = width
        consumed  == IF width = 0 THEN 1 ELSE valid_len
        c         == IF width = 1 THEN b1
                     ELSE IF width = 2 THEN (b1 - 192) * 64 + (b[2] - 128)
                     ELSE IF width = 3
                     THEN (b1 - 224) * 4096 + (b[2] - 128) * 64 + (b[3] - 128)
                     ELSE (b1 - 240) * 262144 + (b[2] - 128) * 4096
                              + (b[3] - 128) * 64 + (b[4] - 128)
        rest      == utf8_decode(SubSeq(b, consumed + 1, Len(b)))
    IN  [ text       |-> << IF complete THEN c ELSE REPLACEMENT >> \o rest.text,
          had_errors |-> ~complete \/ rest.had_errors ]

\* String::from_utf8_lossy
from_utf8_lossy(bytes) == utf8_decode(bytes).text

\* std::str::from_utf8: Some(text) for valid UTF-8, None otherwise
from_utf8(bytes) ==
    IF utf8_decode(bytes).had_errors THEN None ELSE Some(utf8_decode(bytes).text)

\* UTF-16 decoding without BOM handling: two bytes make a code unit, a
\* surrogate pair makes one character, an unpaired surrogate and a trailing
\* single byte are replaced by U+FFFD.
RECURSIVE utf16_decode(_, _)
utf16_decode(b, big_endian) ==
    IF b = <<>> THEN [text |-> <<>>, had_errors |-> FALSE]
    ELSE IF Len(b) = 1 THEN [text |-> << REPLACEMENT >>, had_errors |-> TRUE]
    ELSE
    LET unit(i)  == IF big_endian THEN b[i] * 256 + b[i + 1] ELSE b[i + 1] * 256 + b[i]
        u        == unit(1)
        paired   == /\ u \in 55296..56319
                    /\ Len(b) >= 4
                    /\ unit(3) \in 56320..57343
        unpaired == u \in 55296..57343 /\ ~paired
        consumed == IF paired THEN 4 ELSE 2
        c        == IF paired THEN 65536 + (u - 55296) * 1024 + (unit(3) - 56320)
                    ELSE IF unpaired THEN REPLACEMENT
                    ELSE u
        rest     == utf16_decode(SubSeq(b, consumed + 1, Len(b)), big_endian)
    IN  [ text       |-> << c >> \o rest.text,
          had_errors |-> unpaired \/ rest.had_errors ]

\* The part of the GBK index the model uses: << lead, trail, code point >>.
GbkIndex ==
    { << 168, 166, 233 >>,   << 161, 193, 215 >>,   << 161, 209, 8857 >>,
      << 195, 169, 33541 >>, << 195, 151, 33075 >>, << 239, 187, 38168 >>,
      << 239, 191, 38175 >>, << 239, 65, 39024 >>,  << 239, 239, 38258 >>,
      << 187, 65, 31812 >>,  << 187, 239, 20249 >>, << 187, 187, 25442 >>,
      << 187, 191, 35938 >>, << 191, 191, 38752 >> }

\* The part of the Big5 index the model uses: << lead, trail, code point >>.
Big5Index ==
    { << 168, 166, 35895 >>, << 161, 209, 215 >>,   << 195, 169, 30663 >>,
      << 239, 187, 22172 >>, << 239, 191, 22169 >>, << 239, 65, 38813 >>,
      << 239, 239, 28677 >>, << 187, 65, 32736 >>,  << 187, 239, 40180 >>,
      << 187, 187, 36953 >>, << 187, 191, 36955 >>, << 191, 191, 34142 >> }

legacy_index(enc) == IF enc = "GBK" THEN GbkIndex ELSE Big5Index

\* The trail bytes of a double-byte sequence: 40..7E and 80..FE in GBK,
\* 40..7E and A1..FE in Big5.
trail_ok(enc, b2) ==
    IF enc = "GBK" THEN b2 \in 64..126 \/ b2 \in 128..254
    ELSE b2 \in 64..126 \/ b2 \in 161..254

\* GBK / Big5 decoding without BOM handling: ASCII bytes stand for themselves
\* (and 80 for U+20AC in GBK); a lead byte 81..FE with a trail byte is looked
\* up in the index; anything else is replaced by U+FFFD, and an ASCII byte
\* that is not a trail byte is decoded again on its own.  The four-byte
\* sequences of GBK (lead byte, then 30..39) are outside the model.
RECURSIVE legacy_decode(_, _)
legacy_decode(enc, b) ==
    IF b = <<>> THEN [text |-> <<>>, had_errors |-> FALSE]
    ELSE
    LET b1       == b[1]
        single   == b1 < 128 \/ (enc = "GBK" /\ b1 = 128)
        lead     == b1 \in 129..254 /\ Len(b) >= 2
        in_range == lead /\ trail_ok(enc, b[2])
        entries  == { e \in legacy_index(enc) : lead /\ e[1] = b1 /\ e[2] = b[2] }
        outside  == \/ in_range /\ entries = {}
                    \/ lead /\ enc = "GBK" /\ b[2] \in 48..57
        invalid  == ~single /\ ~in_range /\ ~outside
        consumed == IF single \/ ~lead THEN 1
                    ELSE IF in_range \/ outside THEN 2
                    ELSE IF b[2] < 128 THEN 1
                    ELSE 2
        c        == IF single THEN (IF b1 = 128 THEN 8364 ELSE b1)
                    ELSE IF outside THEN UNTABULATED
                    ELSE IF in_range THEN (CHOOSE e \in entries : TRUE)[3]
                    ELSE REPLACEMENT
        rest     == legacy_decode(enc, SubSeq(b, consumed + 1, Len(b)))
    IN  [ text       |-> << c >> \o rest.text,
          had_errors |-> invalid \/ rest.had_errors ]

\* encoding_rs Encoding::for_bom: the encoding a leading BOM stands for and
\* the length of that BOM
for_bom(bytes) ==
    IF strip_prefix(bytes, UTF8_BOM) # None THEN Some([encoding |-> "UTF_8", length |-> 3])
    ELSE IF strip_prefix(bytes, UTF16LE_BOM) # None
    THEN Some([encoding |-> "UTF_16LE", length |-> 2])
    ELSE IF strip_prefix(bytes, UTF16BE_BOM) # None
    THEN Some([encoding |-> "UTF_16BE", length |-> 2])
    ELSE None

\* encoding_rs Encoding::decode_without_bom_handling
decode_without_bom_handling(enc, bytes) ==
    IF enc = "UTF_8" THEN utf8_decode(bytes)
    ELSE IF enc = "UTF_16LE" THEN utf16_decode(bytes, FALSE)
    ELSE IF enc = "UTF_16BE" THEN utf16_decode(bytes, TRUE)
    ELSE legacy_decode(enc, bytes)

\* encoding_rs Encoding::decode: a BOM at the start of the input selects the
\* decoder and is removed, whatever encoding decode() is called on
encoding_decode(enc, bytes) ==
    IF for_bom(bytes) # None
    THEN decode_without_bom_handling(
             for_bom(bytes)[1].encoding,
             SubSeq(bytes, for_bom(bytes)[1].length + 1, Len(bytes)))
    ELSE decode_without_bom_handling(enc, bytes)

\* The decimal digits of n, as ASCII bytes.
RECURSIVE decimal(_)
decimal(n) == IF n < 10 THEN << 48 + n >> ELSE decimal(n \div 10) \o << 48 + (n % 10) >>

\* GBK / Big5 encoding of one character: ASCII as itself, an indexed character
\* as its lead and trail byte, any other character as the numeric character
\* reference "&#N;".
legacy_encode_char(enc, c) ==
    LET entries == { e \in legacy_index(enc) : e[3] = c }
    IN  IF c < 128 THEN << c >>
        ELSE IF enc = "GBK" /\ c = 8364 THEN << 128 >>
        ELSE IF entries # {}
        THEN << (CHOOSE e \in entries : TRUE)[1], (CHOOSE e \in entries : TRUE)[2] >>
        ELSE << 38, 35 >> \o decimal(c) \o << 59 >>

RECURSIVE legacy_encode(_, _)
legacy_encode(enc, text) ==
    IF text = <<>> THEN <<>>
    ELSE legacy_encode_char(enc, Head(text)) \o legacy_encode(enc, Tail(text))

\* encoding_rs Encoding::encode: encodes into the output encoding, which is
\* UTF-8 for UTF_16LE and UTF_16BE
encoding_encode(enc, text) ==
    IF enc \in { "UTF_8", "UTF_16LE", "UTF_16BE" } THEN as_bytes(text)
    ELSE legacy_encode(enc, text)

\* decode_bytes that falls back to Big5 when the two decodes do not differ in
\* having errors.
decode_bytes_prefers_big5(bytes, hint) ==
    IF strip_prefix(bytes, UTF8_BOM) # None
    THEN [ text     |-> from_utf8_lossy(strip_prefix(bytes, UTF8_BOM)[1]),
           encoding |-> "Utf8Bom" ]
    ELSE IF strip_prefix(bytes, UTF16LE_BOM) # None
    THEN [ text     |-> encoding_decode("UTF_16LE", strip_prefix(bytes, UTF16LE_BOM)[1]).text,
           encoding |-> "Utf16Le" ]
    ELSE IF strip_prefix(bytes, UTF16BE_BOM) # None
    THEN [ text     |-> encoding_decode("UTF_16BE", strip_prefix(bytes, UTF16BE_BOM)[1]).text,
           encoding |-> "Utf16Be" ]
    ELSE IF hint = "Utf8"
    THEN [ text |-> from_utf8_lossy(bytes), encoding |-> "Utf8" ]
    ELSE IF hint = "Utf16Le"
    THEN [ text |-> encoding_decode("UTF_16LE", bytes).text, encoding |-> "Utf16Le" ]
    ELSE IF hint = "Utf16Be"
    THEN [ text |-> encoding_decode("UTF_16BE", bytes).text, encoding |-> "Utf16Be" ]
    ELSE IF hint = "Gbk"
    THEN [ text |-> encoding_decode("GBK", bytes).text, encoding |-> "Gbk" ]
    ELSE IF hint = "Big5"
    THEN [ text |-> encoding_decode("BIG5", bytes).text, encoding |-> "Big5" ]
    ELSE IF from_utf8(bytes) # None
    THEN [ text |-> from_utf8(bytes)[1], encoding |-> "Utf8" ]
    ELSE
    LET gbk  == encoding_decode("GBK", bytes)
        big5 == encoding_decode("BIG5", bytes)
    IN  IF ~gbk.had_errors /\ big5.had_errors
        THEN [ text |-> gbk.text, encoding |-> "Gbk" ]
        ELSE [ text |-> big5.text, encoding |-> "Big5" ]

\* decode_bytes
decode_bytes(bytes, hint) ==
    IF strip_prefix(bytes, UTF8_BOM) # None
    THEN [ text     |-> from_utf8_lossy(strip_prefix(bytes, UTF8_BOM)[1]),
           encoding |-> "Utf8Bom" ]
    ELSE IF strip_prefix(bytes, UTF16LE_BOM) # None
    THEN [ text     |-> encoding_decode("UTF_16LE", strip_prefix(bytes, UTF16LE_BOM)[1]).text,
           encoding |-> "Utf16Le" ]
    ELSE IF strip_prefix(bytes, UTF16BE_BOM) # None
    THEN [ text     |-> encoding_decode("UTF_16BE", strip_prefix(bytes, UTF16BE_BOM)[1]).text,
           encoding |-> "Utf16Be" ]
    ELSE IF hint = "Utf8"
    THEN [ text |-> from_utf8_lossy(bytes), encoding |-> "Utf8" ]
    ELSE IF hint = "Utf16Le"
    THEN [ text |-> encoding_decode("UTF_16LE", bytes).text, encoding |-> "Utf16Le" ]
    ELSE IF hint = "Utf16Be"
    THEN [ text |-> encoding_decode("UTF_16BE", bytes).text, encoding |-> "Utf16Be" ]
    ELSE IF hint = "Gbk"
    THEN [ text |-> encoding_decode("GBK", bytes).text, encoding |-> "Gbk" ]
    ELSE IF hint = "Big5"
    THEN [ text |-> encoding_decode("BIG5", bytes).text, encoding |-> "Big5" ]
    ELSE IF from_utf8(bytes) # None
    THEN [ text |-> from_utf8(bytes)[1], encoding |-> "Utf8" ]
    ELSE
    LET gbk  == encoding_decode("GBK", bytes)
        big5 == encoding_decode("BIG5", bytes)
    IN  IF ~gbk.had_errors /\ big5.had_errors
        THEN [ text |-> gbk.text, encoding |-> "Gbk" ]
        ELSE IF gbk.had_errors /\ ~big5.had_errors
        THEN [ text |-> big5.text, encoding |-> "Big5" ]
        ELSE [ text |-> gbk.text, encoding |-> "Gbk" ]

\* encode_text without the BOM of a Utf8Bom document.
encode_text_without_utf8_bom(text, encoding) ==
    IF encoding \in { "Utf8", "Utf8Bom" } THEN as_bytes(text)
    ELSE IF encoding = "Utf16Le" THEN UTF16LE_BOM \o encoding_encode("UTF_16LE", text)
    ELSE IF encoding = "Utf16Be" THEN UTF16BE_BOM \o encoding_encode("UTF_16BE", text)
    ELSE IF encoding = "Gbk" THEN encoding_encode("GBK", text)
    ELSE encoding_encode("BIG5", text)

\* encode_text
encode_text(text, encoding) ==
    IF encoding = "Utf8" THEN as_bytes(text)
    ELSE IF encoding = "Utf8Bom" THEN UTF8_BOM \o as_bytes(text)
    ELSE IF encoding = "Utf16Le" THEN UTF16LE_BOM \o encoding_encode("UTF_16LE", text)
    ELSE IF encoding = "Utf16Be" THEN UTF16BE_BOM \o encoding_encode("UTF_16BE", text)
    ELSE IF encoding = "Gbk" THEN encoding_encode("GBK", text)
    ELSE encoding_encode("BIG5", text)

\* ------------------------------------------------------------------------
\* SyntaxState (rustide-syntax)
\* ------------------------------------------------------------------------

LanguageIds == { "Cpp", "Python", "Hlsl", "Markdown", "PlainText" }

\* The languages without a grammar.
NoGrammar == { "PlainText", "Markdown" }

\* Duration::from_millis(40), the debounce of the languages with a grammar.
DEBOUNCE_MS == 40

\* SyntaxState::new
new(language) ==
    [ language      |-> language,
      tree          |-> None,
      query         |-> IF language \in NoGrammar THEN None ELSE Some(language),
      debounce      |-> IF language \in NoGrammar THEN 0 ELSE DEBOUNCE_MS,
      pending_since |-> None ]

\* tag_from_capture_name, on the head of the capture's name
tag_from_capture_name(head) ==
    IF head = "comment" THEN Some("Comment")
    ELSE IF head = "string" THEN Some("String")
    ELSE IF head = "number" THEN Some("Number")
    ELSE IF head = "keyword" THEN Some("Keyword")
    ELSE IF head = "type" THEN Some("Type")
    ELSE IF head = "function" THEN Some("Function")
    ELSE IF head = "constant" THEN Some("Constant")
    ELSE IF head = "variable" THEN Some("Variable")
    ELSE IF head \in { "property", "field" } THEN Some("Property")
    ELSE IF head = "operator" THEN Some("Operator")
    ELSE IF head = "punctuation" THEN Some("Punctuation")
    ELSE IF head = "constructor" THEN Some("Type")
    ELSE IF head = "escape" THEN Some("String")
    ELSE IF head = "embedded" THEN Some("String")
    ELSE None

\* The nodes that the language's highlight query captures in the tree of a
\* buffer of n bytes, in the order the cursor yields them.  The grammars
\* stand for tree-sitter's: in Cpp a node spanning the buffer comes before a
\* node on its first byte; in Python a node on the last byte under a capture
\* name without tag, an empty node at the end (a missing node) and a node
\* spanning the buffer; in Hlsl two captures of the node spanning the buffer.
Captures(language, n) ==
    IF language = "Cpp"
    THEN << [start |-> 0, end |-> n, name |-> "function"],
            [start |-> 0, end |-> Min(1, n), name |-> "keyword"] >>
    ELSE IF language = "Python"
    THEN << [start |-> saturating_sub(n, 1), end |-> n, name |-> "label"],
            [start |-> n, end |-> n, name |-> "string"],
            [start |-> 0, end |-> n, name |-> "comment"] >>
    ELSE << [start |-> 0, end |-> n, name |-> "type"],
            [start |-> 0, end |-> n, name |-> "constructor"] >>

\* Parser::parse_with on the buffer, with the grammar set in SyntaxState::new
parse_with(language, r) ==
    [ source |-> r, nodes |-> Captures(language, byte_len(r)) ]

\* Where tree-sitter's Tree::edit moves a byte offset.
edit_offset(p, edit) ==
    IF p >= edit.old_end_byte THEN edit.new_end_byte + (p - edit.old_end_byte)
    ELSE IF p > edit.start_byte THEN edit.new_end_byte
    ELSE p

\* Tree::edit: the nodes are shifted in place, the tree is not reparsed.
tree_edit(tree, edit) ==
    [ tree EXCEPT !.nodes =
        [ i \in 1..Len(tree.nodes) |->
            [ tree.nodes[i] EXCEPT !.start = edit_offset(@, edit),
                                   !.end = edit_offset(@, edit) ] ] ]

\* editor_view.rs to_input_edit
to_input_edit(edit) ==
    [ start_byte       |-> edit.start_byte,
      old_end_byte     |-> edit.old_end_byte,
      new_end_byte     |-> edit.new_end_byte,
      start_position   |-> edit.start_point,
      old_end_position |-> edit.old_end_point,
      new_end_position |-> edit.new_end_point ]

\* What Parser::parse_with can return for the buffer: the tree, or None when
\* the parse fails.
ParserResults(language, r) == { None, Some(parse_with(language, r)) }

\* set_text that drops the cached tree when the parse fails.
try_set_text_drops_tree(s, r, parsed) ==
    IF s.language \in NoGrammar
    THEN [ result |-> "Ok", state |-> [ s EXCEPT !.tree = None ] ]
    ELSE IF parsed = None
    THEN [ result |-> "ParseFailed", state |-> [ s EXCEPT !.tree = None ] ]
    ELSE [ result |-> "Ok",
           state  |-> [ s EXCEPT !.tree = parsed, !.pending_since = None ] ]

\* SyntaxState::set_text, with `parsed` what the parser returns: the Result
\* and the state after the call
try_set_text(s, r, parsed) ==
    IF s.language \in NoGrammar
    THEN [ result |-> "Ok", state |-> [ s EXCEPT !.tree = None ] ]
    ELSE IF parsed = None
    THEN [ result |-> "ParseFailed", state |-> s ]
    ELSE [ result |-> "Ok",
           state  |-> [ s EXCEPT !.tree = parsed, !.pending_since = None ] ]

\* SyntaxState::set_text when the parse succeeds
set_text(s, r) ==
    IF s.language \in NoGrammar THEN [ s EXCEPT !.tree = None ]
    ELSE [ s EXCEPT !.tree = Some(parse_with(s.language, r)), !.pending_since = None ]

\* queue_edit that sets the timestamp whatever the language is.
queue_edit_any_language(s, edit, instant) ==
    [ s EXCEPT !.tree = IF s.tree # None THEN Some(tree_edit(s.tree[1], edit)) ELSE None,
               !.pending_since = Some(instant) ]

\* queue_edit that keeps the timestamp of the first pending edit.
queue_edit_keeps_first_timestamp(s, edit, instant) ==
    IF s.language \in NoGrammar THEN s
    ELSE [ s EXCEPT !.tree = IF s.tree # None THEN Some(tree_edit(s.tree[1], edit)) ELSE None,
                    !.pending_since = IF s.pending_since = None THEN Some(instant)
                                      ELSE s.pending_since ]

\* SyntaxState::queue_edit; instant is Instant::now().
queue_edit(s, edit, instant) ==
    IF s.language \in NoGrammar THEN s
    ELSE [ s EXCEPT !.tree = IF s.tree # None THEN Some(tree_edit(s.tree[1], edit)) ELSE None,
                    !.pending_since = Some(instant) ]

\* ensure_parsed that replaces the tree and leaves the marker set.
ensure_parsed_keeps_marker(s, r, instant) ==
    IF s.language \in NoGrammar THEN s
    ELSE IF s.pending_since = None THEN s
    ELSE IF instant - s.pending_since[1] < s.debounce THEN s
    ELSE [ s EXCEPT !.tree = Some(parse_with(s.language, r)) ]

\* ensure_parsed that reparses as soon as an edit is pending.
ensure_parsed_without_debounce(s, r, instant) ==
    IF s.language \in NoGrammar THEN s
    ELSE IF s.pending_since = None THEN s
    ELSE [ s EXCEPT !.tree = Some(parse_with(s.language, r)), !.pending_since = None ]

\* SyntaxState::ensure_parsed; instant is the clock when it is called.
ensure_parsed(s, r, instant) ==
    IF s.language \in NoGrammar THEN s
    ELSE IF s.pending_since = None THEN s
    ELSE IF instant - s.pending_since[1] < s.debounce THEN s
    ELSE [ s EXCEPT !.tree = Some(parse_with(s.language, r)), !.pending_since = None ]

\* ensure_parsed that clears the pending marker when the parse fails.
try_ensure_parsed_clears_marker(s, r, instant, parsed) ==
    IF s.language \in NoGrammar THEN [ result |-> "Ok", state |-> s ]
    ELSE IF s.pending_since = None THEN [ result |-> "Ok", state |-> s ]
    ELSE IF instant - s.pending_since[1] < s.debounce THEN [ result |-> "Ok", state |-> s ]
    ELSE IF parsed = None
    THEN [ result |-> "ParseFailed", state |-> [ s EXCEPT !.pending_since = None ] ]
    ELSE [ result |-> "Ok",
           state  |-> [ s EXCEPT !.tree = parsed, !.pending_since = None ] ]

\* SyntaxState::ensure_parsed, with `parsed` what the parser returns if it is
\* called: the Result and the state after the call
try_ensure_parsed(s, r, instant, parsed) ==
    IF s.language \in NoGrammar THEN [ result |-> "Ok", state |-> s ]
    ELSE IF s.pending_since = None THEN [ result |-> "Ok", state |-> s ]
    ELSE IF instant - s.pending_since[1] < s.debounce THEN [ result |-> "Ok", state |-> s ]
    ELSE IF parsed = None THEN [ result |-> "ParseFailed", state |-> s ]
    ELSE [ result |-> "Ok",
           state  |-> [ s EXCEPT !.tree = parsed, !.pending_since = None ] ]

\* ensure_parsed calls the parser: the language has a grammar and an edit has
\* been pending for the debounce interval.
parser_called(s, instant) ==
    /\ s.language \notin NoGrammar
    /\ s.pending_since # None
    /\ instant - s.pending_since[1] >= s.debounce

\* sort_by_key that leaves the spans in the order of the captures.
sort_by_key_keeps_order(spans) == spans

\* spans.sort_by_key(|s| (s.byte_range.start, s.byte_range.end)): a stable sort
RECURSIVE sort_by_key(_)
sort_by_key(spans) ==
    IF spans = <<>> THEN <<>>
    ELSE LET sorted == sort_by_key(SubSeq(spans, 1, Len(spans) - 1))
             x      == spans[Len(spans)]
             k      == Cardinality({ i \in 1..Len(sorted) :
                           \/ sorted[i].byte_range.start < x.byte_range.start
                           \/ /\ sorted[i].byte_range.start = x.byte_range.start
                              /\ sorted[i].byte_range.end <= x.byte_range.end })
         IN  SubSeq(sorted, 1, k) \o << x >> \o SubSeq(sorted, k + 1, Len(sorted))

\* The loop of highlight_spans that pushes every capture without clipping it.
RECURSIVE push_unclipped(_, _)
push_unclipped(nodes, byte_range) ==
    IF nodes = <<>> THEN <<>>
    ELSE LET tag == tag_from_capture_name(Head(nodes).name)
             rest == push_unclipped(Tail(nodes), byte_range)
         IN  IF tag = None THEN rest
             ELSE << [ byte_range |-> [start |-> Head(nodes).start, end |-> Head(nodes).end],
                       tag |-> tag[1] ] >> \o rest

\* The loop of highlight_spans over the captures: skip the captures without
\* tag, clip the node's range to the window, push what is left if not empty.
RECURSIVE push_clipped(_, _)
push_clipped(nodes, byte_range) ==
    IF nodes = <<>> THEN <<>>
    ELSE LET tag   == tag_from_capture_name(Head(nodes).name)
             start == Max(Head(nodes).start, byte_range.start)
             end   == Min(Head(nodes).end, byte_range.end)
             rest  == push_clipped(Tail(nodes), byte_range)
         IN  IF tag = None THEN rest
             ELSE IF start < end
             THEN << [ byte_range |-> [start |-> start, end |-> end], tag |-> tag[1] ] >> \o rest
             ELSE rest

\* SyntaxState::highlight_spans: the state after the call and the spans returned
highlight_spans(s, r, byte_range, instant) ==
    LET s2 == ensure_parsed(s, r, instant)
    IN  [ state |-> s2,
          spans |-> IF s2.query = None \/ s2.tree = None THEN <<>>
                    ELSE sort_by_key(push_clipped(s2.tree[1].nodes, byte_range)) ]

\* SyntaxState::highlight_spans, with `parsed` what the parser returns if it
\* is called: the Result, the state after the call and the spans of Ok
try_highlight_spans(s, r, byte_range, instant, parsed) ==
    LET ensured == try_ensure_parsed(s, r, instant, parsed)
        s2      == ensured.state
    IN  IF ensured.result # "Ok"
        THEN [ result |-> ensured.result, state |-> s2, spans |-> None ]
        ELSE [ result |-> "Ok",
               state  |-> s2,
               spans  |-> IF s2.query = None \/ s2.tree = None THEN Some(<<>>)
                          ELSE Some(sort_by_key(push_clipped(s2.tree[1].nodes, byte_range))) ]

\* ------------------------------------------------------------------------
\* State
\* ------------------------------------------------------------------------

VARIABLES
    rope,              \* Editor.rope
    selection,         \* Editor.selection
    preferred_column,  \* Editor.preferred_column
    history,           \* Editor.history: [undo, redo], stacks of EditRecord
    version,           \* Editor.version
    last_edit,         \* Editor.last_edit
    text0,             \* observer: the text the editor was constructed from
    cmd,               \* observer: the last command that changed the editor ("view"
                       \*           for the commands that never touch the buffer)
    phase,             \* observer: shape of the committed commands so far
    views,             \* observer: number of cursor/selection commands that changed
                       \*           the editor so far
    pre,               \* observer: per history record, rope and selection before
                       \*           the mutation it records was first applied
    disk,              \* the bytes of the file at Document.path, None without file
    doc,               \* the Document in memory: [text, encoding], None without one;
                       \*           text is the content of its buffer as code points
    hint,              \* observer: the hint of the last load
    steps,             \* observer: number of load and save calls so far
    syntax,            \* the SyntaxState of the open document, None without one
    now,               \* the clock that Instant::now() reads, in milliseconds
    ticks,             \* observer: number of advances of the clock so far
    reparses,          \* observer: number of reparses made by ensure_parsed so far
    reparsed_at,       \* observer: the clock at the last of them, None before
    spans,             \* observer: the window and the result of the last call if
                       \*           it was highlight_spans, None otherwise
    parser_result,     \* observer (SpecParse): Some(what the parser returned) if
                       \*           the last call of the SyntaxState called it, None
                       \*           otherwise
    returned,          \* observer (SpecParse): the Result the last call returned,
                       \*           "Ok" or "ParseFailed"; "Ok" for queue_edit
    documents,         \* RustideApp.documents: the open tabs, tab 0 first
    active_doc,        \* RustideApp.active_doc
    load_tx,           \* LoadRequests sent and not yet taken by the load thread
    load_rx,           \* LoadMessages sent and not yet polled
    save_tx,           \* SaveRequests sent and not yet taken by the save thread
    save_rx,           \* SaveMessages sent and not yet polled
    fs,                \* the text of the file at each path
    update_at,         \* the call RustideApp::update makes next
    opened,            \* observer: number of OpenDocument values constructed
    wclock,            \* the clock read by the watcher's threads, in milliseconds
    raw,               \* the raw channel: events sent by the watcher, not yet
                       \*           received, each with the time it was sent at
    connected,         \* the raw sender exists
    last_changed,      \* debounce_events: last_changed
    deadline,          \* debounce_events: when the pending recv_timeout times out
    running,           \* debounce_events: the loop has not ended
    debounced,         \* the events forwarded so far
    sent               \* observer: number of raw events sent so far

codec_vars == << disk, doc, hint, steps >>

parse_vars == << parser_result, returned >>

app_vars == << documents, active_doc, load_tx, load_rx, save_tx, save_rx, fs,
               update_at, opened >>

watcher_vars == << wclock, raw, connected, last_changed, deadline, running,
                   debounced, sent >>

syntax_vars == << syntax, now, ticks, reparses, reparsed_at, spans, parse_vars >>

editor_vars == << rope, selection, preferred_column, history, version, last_edit,
                  text0, phase, views, pre >>

vars == << rope, selection, preferred_column, history, version, last_edit,
           text0, cmd, phase, views, pre, disk, doc, hint, steps,
           syntax, now, ticks, reparses, reparsed_at, spans, parser_result, returned,
           documents, active_doc, load_tx, load_rx, save_tx, save_rx, fs,
           update_at, opened,
           wclock, raw, connected, last_changed, deadline, running, debounced,
           sent >>

\* No document has been loaded or saved.
NoCodec ==
    /\ disk = None
    /\ doc = None
    /\ hint = "Auto"
    /\ steps = 0

\* No project is watched.
NoWatcher ==
    /\ wclock = 0
    /\ raw = <<>>
    /\ connected = FALSE
    /\ last_changed = None
    /\ deadline = 0
    /\ running = FALSE
    /\ debounced = <<>>
    /\ sent = 0

\* No tab is open and no request or result is under way.
NoTabs ==
    /\ documents = <<>>
    /\ active_doc = 0
    /\ load_tx = <<>>
    /\ load_rx = <<>>
    /\ save_tx = <<>>
    /\ save_rx = <<>>
    /\ update_at = "poll_load_results"
    /\ opened = 0

\* The application has not been constructed.
NoApp ==
    /\ NoTabs
    /\ fs = <<>>
    /\ NoWatcher

\* No document with a SyntaxState is open.
NoSyntax ==
    /\ syntax = None
    /\ now = 0
    /\ ticks = 0
    /\ reparses = 0
    /\ reparsed_at = None
    /\ spans = None
    /\ parser_result = None
    /\ returned = "Ok"

\* The editor of the earlier specifications, left alone by the application
\* and the watcher.
NoEditor ==
    /\ rope = from_text(<<>>).rope
    /\ selection = from_text(<<>>).selection
    /\ preferred_column = from_text(<<>>).preferred_column
    /\ history = from_text(<<>>).history
    /\ version = from_text(<<>>).version
    /\ last_edit = from_text(<<>>).last_edit
    /\ text0 = <<>>
    /\ cmd = "new"
    /\ phase = "mutations"
    /\ views = 0
    /\ pre = [undo |-> <<>>, redo |-> <<>>]
    /\ NoCodec
    /\ NoSyntax

\* The editor record of the current state.
Ed ==
    [ rope             |-> rope,
      selection        |-> selection,
      preferred_column |-> preferred_column,
      history          |-> history,
      version          |-> version,
      last_edit        |-> last_edit ]

\* The commands that push a new EditRecord when they commit.
MutatingCmds == { "insert_text", "insert_newline_auto_indent", "backspace", "delete_forward" }

\* The commands that never touch the buffer.
ViewCmds ==
    { "set_cursor", "select_all", "select_range", "take_last_edit",
      "move_left", "move_right", "move_up", "move_down",
      "move_line_start", "move_line_end" }

Pop(s) == SubSeq(s, 1, Len(s) - 1)

Top(s) == s[Len(s)]

\* One call of command `name`, taking the editor to `result`, explored while
\* the buffer stays within max_len characters and the cursor/selection
\* commands within max_views.  The observer counts a call of a mutating
\* command, undo or redo as committed when it changes the editor at all.
EditorStep(name, result, max_len, max_views) ==
    /\ name \in ViewCmds => views < max_views
    /\ \E e2 \in { result } :
        LET committed == name \notin ViewCmds /\ e2 # Ed
            snapshot  == [rope |-> rope, selection |-> selection]
        IN
        /\ Len(e2.rope) <= max_len
        /\ e2.version <= MaxVersion
        /\ rope' = e2.rope
        /\ selection' = e2.selection
        /\ preferred_column' = e2.preferred_column
        /\ history' = e2.history
        /\ version' = e2.version
        /\ last_edit' = e2.last_edit
        /\ text0' = text0
        /\ cmd' = IF e2 = Ed THEN cmd
                  ELSE IF name \in ViewCmds THEN "view"
                  ELSE name
        /\ views' = IF name \in ViewCmds /\ e2 # Ed THEN views + 1 ELSE views
        /\ phase' = IF ~committed THEN phase
                    ELSE IF name \in MutatingCmds
                    THEN (IF phase = "mutations" THEN "mutations" ELSE "mixed")
                    ELSE IF name = "undo"
                    THEN (IF phase \in {"mutations", "undos"} THEN "undos" ELSE "mixed")
                    ELSE "mixed"
        /\ pre' = IF ~committed THEN pre
                  ELSE IF name \in MutatingCmds
                  THEN [undo |-> Append(pre.undo, snapshot), redo |-> <<>>]
                  ELSE IF name = "undo"
                  THEN [undo |-> Pop(pre.undo), redo |-> Append(pre.redo, Top(pre.undo))]
                  ELSE [undo |-> Append(pre.undo, Top(pre.redo)), redo |-> Pop(pre.redo)]

\* One call of a command on an editor without document file and SyntaxState.
CallWithin(name, result, max_len, max_views) ==
    /\ EditorStep(name, result, max_len, max_views)
    /\ UNCHANGED codec_vars
    /\ UNCHANGED << app_vars, watcher_vars >>
    /\ UNCHANGED syntax_vars

\* One call of a command in the specifications Spec and SpecMut.
Call(name, result) == CallWithin(name, result, MaxLen, MaxViews)

\* Offsets handed to Editor::set_cursor: the start, an inner offset and one past
\* the longest buffer.
CursorArgs == { 0, 2, MaxLen + 1 }

\* Ranges handed to Editor::select_range: ordered, reversed, and out of range.
RangeArgs == { <<1, 3>>, <<2, 1>>, <<MaxLen + 1, 0>> }

Init ==
    \E text \in InitTexts :
        /\ rope = from_text(text).rope
        /\ selection = from_text(text).selection
        /\ preferred_column = from_text(text).preferred_column
        /\ history = from_text(text).history
        /\ version = from_text(text).version
        /\ last_edit = from_text(text).last_edit
        /\ text0 = text
        /\ cmd = "from_text"
        /\ phase = "mutations"
        /\ views = 0
        /\ pre = [undo |-> <<>>, redo |-> <<>>]
        /\ NoCodec
        /\ NoApp
        /\ NoSyntax

InsertText == \E text \in InsertTexts : Call("insert_text", insert_text(Ed, text))

InsertNewlineAutoIndent ==
    Call("insert_newline_auto_indent", insert_newline_auto_indent(Ed))

Backspace == Call("backspace", backspace(Ed))

DeleteForward == Call("delete_forward", delete_forward(Ed))

Undo == Call("undo", undo(Ed).editor)

Redo == Call("redo", redo(Ed).editor)

TakeLastEdit == Call("take_last_edit", take_last_edit(Ed).editor)

SetCursor ==
    \E pos \in CursorArgs, extend \in BOOLEAN :
        Call("set_cursor", set_cursor(Ed, pos, extend))

SelectAll == Call("select_all", select_all(Ed))

SelectRange ==
    \E rg \in RangeArgs : Call("select_range", select_range(Ed, rg[1], rg[2]))

MoveLeft == \E extend \in BOOLEAN : Call("move_left", move_left(Ed, extend))

MoveRight == \E extend \in BOOLEAN : Call("move_right", move_right(Ed, extend))

MoveUp == \E extend \in BOOLEAN : Call("move_up", move_up(Ed, extend))

MoveDown == \E extend \in BOOLEAN : Call("move_down", move_down(Ed, extend))

MoveLineStart == \E extend \in BOOLEAN : Call("move_line_start", move_line_start(Ed, extend))

MoveLineEnd == \E extend \in BOOLEAN : Call("move_line_end", move_line_end(Ed, extend))

Next ==
    \/ InsertText
    \/ InsertNewlineAutoIndent
    \/ Backspace
    \/ DeleteForward
    \/ Undo
    \/ Redo
    \/ TakeLastEdit
    \/ SetCursor
    \/ SelectAll
    \/ SelectRange
    \/ MoveLeft
    \/ MoveRight
    \/ MoveUp
    \/ MoveDown
    \/ MoveLineStart
    \/ MoveLineEnd

\* Every command of the editor, in any order.
Spec == Init /\ [][Next]_vars

NextMut ==
    \/ InsertText
    \/ InsertNewlineAutoIndent
    \/ Backspace
    \/ DeleteForward
    \/ Undo
    \/ Redo

\* The mutating commands alone, in any order, on a freshly constructed editor.
SpecMut == Init /\ [][NextMut]_vars

\* An editor constructed from a text of several lines, with the cursor placed
\* anywhere in it.
InitMove ==
    \E text \in MoveTexts : \E pos \in 0..Len(text) :
        /\ rope = text
        /\ selection = set_cursor(from_text(text), pos, FALSE).selection
        /\ preferred_column = set_cursor(from_text(text), pos, FALSE).preferred_column
        /\ history = from_text(text).history
        /\ version = from_text(text).version
        /\ last_edit = from_text(text).last_edit
        /\ text0 = text
        /\ cmd = "from_text"
        /\ phase = "mutations"
        /\ views = 0
        /\ pre = [undo |-> <<>>, redo |-> <<>>]
        /\ NoCodec
        /\ NoApp
        /\ NoSyntax

\* One cursor command in SpecMove.
Key(name, result) == CallWithin(name, result, Len(rope), MaxMoves)

ArrowUp == \E extend \in BOOLEAN : Key("move_up", move_up(Ed, extend))

ArrowDown == \E extend \in BOOLEAN : Key("move_down", move_down(Ed, extend))

ArrowLeft == \E extend \in BOOLEAN : Key("move_left", move_left(Ed, extend))

ArrowRight == \E extend \in BOOLEAN : Key("move_right", move_right(Ed, extend))

Home == \E extend \in BOOLEAN : Key("move_line_start", move_line_start(Ed, extend))

End == \E extend \in BOOLEAN : Key("move_line_end", move_line_end(Ed, extend))

NextMove ==
    \/ ArrowUp
    \/ ArrowDown
    \/ ArrowLeft
    \/ ArrowRight
    \/ Home
    \/ End

\* The cursor keys alone, on a text of several lines.
SpecMove == InitMove /\ [][NextMove]_vars

\* An editor constructed from a text with indentation and braces, with any
\* selection in it.
InitIndent ==
    \E text \in IndentTexts : \E a \in 0..Len(text), c \in 0..Len(text) :
        /\ rope = text
        /\ selection = select_range(from_text(text), a, c).selection
        /\ preferred_column = select_range(from_text(text), a, c).preferred_column
        /\ history = from_text(text).history
        /\ version = from_text(text).version
        /\ last_edit = from_text(text).last_edit
        /\ text0 = text
        /\ cmd = "from_text"
        /\ phase = "mutations"
        /\ views = 0
        /\ pre = [undo |-> <<>>, redo |-> <<>>]
        /\ NoCodec
        /\ NoApp
        /\ NoSyntax

Enter ==
    CallWithin("insert_newline_auto_indent", insert_newline_auto_indent(Ed), MaxIndentLen, 0)

UndoEnter == CallWithin("undo", undo(Ed).editor, MaxIndentLen, 0)

RedoEnter == CallWithin("redo", redo(Ed).editor, MaxIndentLen, 0)

NextIndent ==
    \/ Enter
    \/ UndoEnter
    \/ RedoEnter

\* The Enter key, undo and redo, on indented text with any selection.
SpecIndent == InitIndent /\ [][NextIndent]_vars

TextEncodingHints == { "Auto", "Utf8", "Utf16Le", "Utf16Be", "Gbk", "Big5" }

TextEncodings == { "Utf8", "Utf8Bom", "Utf16Le", "Utf16Be", "Gbk", "Big5" }

\* The files SpecCodec starts from: a BOM followed by any bytes, and files
\* without BOM.
Files ==
    { bom \o rest : bom \in { UTF8_BOM, UTF16LE_BOM, UTF16BE_BOM },
                    rest \in SeqsUpTo(RestBytes, MaxRestLen) }
        \cup SeqsUpTo(RawBytes, MaxRestLen)

\* Either a file on disk that has not been loaded, or a document in memory
\* (loaded earlier and edited since) that has not been saved.
InitCodec ==
    /\ rope = from_text(<<>>).rope
    /\ selection = from_text(<<>>).selection
    /\ preferred_column = from_text(<<>>).preferred_column
    /\ history = from_text(<<>>).history
    /\ version = from_text(<<>>).version
    /\ last_edit = from_text(<<>>).last_edit
    /\ text0 = <<>>
    /\ cmd = "new"
    /\ phase = "mutations"
    /\ views = 0
    /\ pre = [undo |-> <<>>, redo |-> <<>>]
    /\ hint = "Auto"
    /\ steps = 0
    /\ NoSyntax
    /\ NoApp
    /\ \/ /\ disk \in { Some(f) : f \in Files }
          /\ doc = None
       \/ /\ disk = None
          /\ doc \in { Some([text |-> t, encoding |-> e]) :
                          t \in SeqsUpTo(CodecChars, MaxTextLen), e \in TextEncodings }

\* Document::load_with_encoding: decode the bytes of the file.  Loads that
\* would look up a byte pair outside the tabulated part of the GBK or Big5
\* index are not explored.
Load ==
    \E h \in TextEncodingHints :
        /\ disk # None
        /\ steps < MaxCodecSteps
        /\ \A i \in 1..Len(decode_bytes(disk[1], h).text) :
               decode_bytes(disk[1], h).text[i] # UNTABULATED
        /\ doc' = Some(decode_bytes(disk[1], h))
        /\ hint' = h
        /\ steps' = steps + 1
        /\ cmd' = "load"
        /\ UNCHANGED << disk, editor_vars, syntax_vars >>
        /\ UNCHANGED << app_vars, watcher_vars >>

\* Document::save: encode the buffer content in the document's encoding and
\* write it to the file.
Save ==
    /\ doc # None
    /\ steps < MaxCodecSteps
    /\ disk' = Some(encode_text(doc[1].text, doc[1].encoding))
    /\ steps' = steps + 1
    /\ cmd' = "save"
    /\ UNCHANGED << doc, hint, editor_vars, syntax_vars >>
    /\ UNCHANGED << app_vars, watcher_vars >>

NextCodec ==
    \/ Load
    \/ Save

\* Loading and saving documents.
SpecCodec == InitCodec /\ [][NextCodec]_vars

\* The SyntaxState of the open document.
Sy == syntax[1]

\* Advances of the clock between two calls: a millisecond, the debounce, and
\* a millisecond less than the debounce.
TickSteps == { 1, DEBOUNCE_MS - 1, DEBOUNCE_MS }

\* The windows handed to highlight_spans: any two offsets of the longest
\* buffer.
Windows ==
    { [start |-> a, end |-> b] : a \in 0..MaxSyntaxLen, b \in 0..MaxSyntaxLen }

\* A document is opened (main.rs: SyntaxState::new, then set_text on the
\* document's buffer).
InitSyntax ==
    \E text \in SyntaxTexts, language \in LanguageIds :
        /\ rope = from_text(text).rope
        /\ selection = from_text(text).selection
        /\ preferred_column = from_text(text).preferred_column
        /\ history = from_text(text).history
        /\ version = from_text(text).version
        /\ last_edit = from_text(text).last_edit
        /\ text0 = text
        /\ cmd = "from_text"
        /\ phase = "mutations"
        /\ views = 0
        /\ pre = [undo |-> <<>>, redo |-> <<>>]
        /\ NoCodec
        /\ NoApp
        /\ syntax = Some(set_text(new(language), from_text(text).rope))
        /\ now = 0
        /\ ticks = 0
        /\ reparses = 0
        /\ reparsed_at = None
        /\ spans = None
        /\ parser_result = None
        /\ returned = "Ok"

\* handle_input: one command on the editor, then drain_syntax_edits, which
\* takes the pending descriptor and queues it; without descriptor the
\* SyntaxState is not called.
Queued(name, result) ==
    /\ EditorStep(name, take_last_edit(result).editor, MaxSyntaxLen, 0)
    /\ syntax' = IF take_last_edit(result).returns = None THEN syntax
                 ELSE Some(queue_edit(Sy, to_input_edit(take_last_edit(result).returns[1]), now))
    /\ spans' = IF take_last_edit(result).returns = None THEN spans ELSE None
    /\ UNCHANGED << now, ticks, reparses, reparsed_at >>
    /\ UNCHANGED codec_vars
    /\ UNCHANGED << app_vars, watcher_vars >>

\* An input event of SpecSyntax.
Edited(name, result) ==
    /\ Queued(name, result)
    /\ UNCHANGED parse_vars

\* egui::Event::Text
TextEvent == \E text \in SyntaxInserts : Edited("insert_text", insert_text(Ed, text))

\* Key::Backspace
BackspaceKey == Edited("backspace", backspace(Ed))

\* A call that leaves the SyntaxState as s2, as the observers record it: the
\* call reparsed if it cleared pending_since.
Polled(s2) ==
    /\ syntax' = Some(s2)
    /\ reparses' = IF Sy.pending_since # None /\ s2.pending_since = None
                   THEN reparses + 1 ELSE reparses
    /\ reparsed_at' = IF Sy.pending_since # None /\ s2.pending_since = None
                      THEN Some(now) ELSE reparsed_at

\* The editor view's frame: syntax.ensure_parsed(editor.rope())
Frame ==
    /\ Polled(ensure_parsed(Sy, rope, now))
    /\ cmd' = "ensure_parsed"
    /\ spans' = None
    /\ UNCHANGED << now, ticks >>
    /\ UNCHANGED << editor_vars, codec_vars, parse_vars >>
    /\ UNCHANGED << app_vars, watcher_vars >>

\* The editor view's row: syntax.highlight_spans(editor.rope(), window)
HighlightSpans ==
    \E byte_range \in Windows :
        /\ Polled(highlight_spans(Sy, rope, byte_range, now).state)
        /\ spans' = Some([ byte_range |-> byte_range,
                           spans |-> highlight_spans(Sy, rope, byte_range, now).spans ])
        /\ cmd' = "highlight_spans"
        /\ UNCHANGED << now, ticks >>
        /\ UNCHANGED << editor_vars, codec_vars, parse_vars >>
        /\ UNCHANGED << app_vars, watcher_vars >>

\* Time passes between two calls.
Tick ==
    \E d \in TickSteps :
        /\ ticks < MaxTicks
        /\ now' = now + d
        /\ ticks' = ticks + 1
        /\ cmd' = "tick"
        /\ spans' = None
        /\ UNCHANGED << syntax, reparses, reparsed_at >>
        /\ UNCHANGED << editor_vars, codec_vars, parse_vars >>
        /\ UNCHANGED << app_vars, watcher_vars >>

NextSyntax ==
    \/ TextEvent
    \/ BackspaceKey
    \/ Frame
    \/ HighlightSpans
    \/ Tick

\* An open document with its SyntaxState: edits, frames and the clock.
SpecSyntax == InitSyntax /\ [][NextSyntax]_vars

\* Time passes while an edit waits for its reparse (at other times the clock
\* is not read), by a step that falls short of the debounce or reaches it.
WaitSteps == { DEBOUNCE_MS - 1, DEBOUNCE_MS }

Wait ==
    \E d \in WaitSteps :
        /\ Sy.pending_since # None
        /\ now - Sy.pending_since[1] < DEBOUNCE_MS
        /\ now' = now + d
        /\ cmd' = "tick"
        /\ spans' = None
        /\ UNCHANGED << syntax, ticks, reparses, reparsed_at >>
        /\ UNCHANGED << editor_vars, codec_vars, parse_vars >>
        /\ UNCHANGED << app_vars, watcher_vars >>

NextLive ==
    \/ TextEvent
    \/ BackspaceKey
    \/ Frame
    \/ Wait

\* An open document whose view keeps drawing frames while time passes: every
\* frame calls ensure_parsed (editor_view.rs:136-138), and the parser succeeds.
SpecLive ==
    /\ InitSyntax
    /\ [][NextLive]_vars
    /\ WF_vars(Frame)
    /\ WF_vars(Wait)

\* The languages of the documents of SpecParse: one with a grammar and the
\* two without.
ParseLanguages == { "Cpp", "Markdown", "PlainText" }

\* The windows handed to highlight_spans in SpecParse: the longest buffer and
\* an empty window.
ParseWindows == { [start |-> 0, end |-> MaxSyntaxLen], [start |-> 1, end |-> 1] }

\* A call of the SyntaxState that called the parser if `invoked`, got `parsed`
\* from it and ended as `call` = [result, state], as the observers record it.
Called(call, invoked, parsed) ==
    /\ syntax' = Some(call.state)
    /\ returned' = call.result
    /\ parser_result' = IF invoked THEN Some(parsed) ELSE None

\* A SyntaxState of one of ParseLanguages for the buffer of a document, after
\* SyntaxState::new: set_text has not been called.
InitParse ==
    \E text \in SyntaxTexts, language \in ParseLanguages :
        /\ rope = from_text(text).rope
        /\ selection = from_text(text).selection
        /\ preferred_column = from_text(text).preferred_column
        /\ history = from_text(text).history
        /\ version = from_text(text).version
        /\ last_edit = from_text(text).last_edit
        /\ text0 = text
        /\ cmd = "from_text"
        /\ phase = "mutations"
        /\ views = 0
        /\ pre = [undo |-> <<>>, redo |-> <<>>]
        /\ NoCodec
        /\ NoApp
        /\ syntax = Some(new(language))
        /\ now = 0
        /\ ticks = 0
        /\ reparses = 0
        /\ reparsed_at = None
        /\ spans = None
        /\ parser_result = None
        /\ returned = "Ok"

\* An input event of SpecParse: no call of the parser, nothing returned.
ParseEdited(name, result) ==
    /\ Queued(name, result)
    /\ parser_result' = IF take_last_edit(result).returns = None THEN parser_result ELSE None
    /\ returned' = IF take_last_edit(result).returns = None THEN returned ELSE "Ok"

\* egui::Event::Text
ParseTextEvent ==
    \E text \in SyntaxInserts : ParseEdited("insert_text", insert_text(Ed, text))

\* Key::Backspace
ParseBackspaceKey == ParseEdited("backspace", backspace(Ed))

\* SyntaxState::set_text on the document's buffer; the parse may fail.
SetText ==
    \E parsed \in ParserResults(Sy.language, rope) :
        /\ Called(try_set_text(Sy, rope, parsed), Sy.language \notin NoGrammar, parsed)
        /\ cmd' = "set_text"
        /\ spans' = None
        /\ UNCHANGED << now, ticks, reparses, reparsed_at >>
        /\ UNCHANGED << editor_vars, codec_vars >>
        /\ UNCHANGED << app_vars, watcher_vars >>

\* SyntaxState::ensure_parsed on the document's buffer; the parse may fail.
EnsureParsed ==
    \E parsed \in ParserResults(Sy.language, rope) :
        /\ Called(try_ensure_parsed(Sy, rope, now, parsed), parser_called(Sy, now), parsed)
        /\ reparses' = IF parser_called(Sy, now) /\ parsed # None
                       THEN reparses + 1 ELSE reparses
        /\ reparsed_at' = IF parser_called(Sy, now) /\ parsed # None
                          THEN Some(now) ELSE reparsed_at
        /\ cmd' = "ensure_parsed"
        /\ spans' = None
        /\ UNCHANGED << now, ticks >>
        /\ UNCHANGED << editor_vars, codec_vars >>
        /\ UNCHANGED << app_vars, watcher_vars >>

\* SyntaxState::highlight_spans on the document's buffer; the parse may fail.
TryHighlightSpans ==
    \E byte_range \in ParseWindows, parsed \in ParserResults(Sy.language, rope) :
        LET call == try_highlight_spans(Sy, rope, byte_range, now, parsed)
        IN  /\ Called(call, parser_called(Sy, now), parsed)
            /\ reparses' = IF parser_called(Sy, now) /\ parsed # None
                           THEN reparses + 1 ELSE reparses
            /\ reparsed_at' = IF parser_called(Sy, now) /\ parsed # None
                              THEN Some(now) ELSE reparsed_at
            /\ spans' = IF call.spans = None THEN None
                        ELSE Some([ byte_range |-> byte_range, spans |-> call.spans[1] ])
            /\ cmd' = "highlight_spans"
            /\ UNCHANGED << now, ticks >>
            /\ UNCHANGED << editor_vars, codec_vars >>
            /\ UNCHANGED << app_vars, watcher_vars >>

NextParse ==
    \/ ParseTextEvent
    \/ ParseBackspaceKey
    \/ SetText
    \/ EnsureParsed
    \/ TryHighlightSpans
    \/ Tick

\* An open document with its SyntaxState and a parser that may fail.
SpecParse == InitParse /\ [][NextParse]_vars

\* ------------------------------------------------------------------------
\* The application: tabs, the load thread and the save thread (main.rs)
\* ------------------------------------------------------------------------

\* The paths of the files opened.
Paths == { "a.rs", "b.rs" }

\* The file every path names before the application starts.
FileText == << "x" >>

\* Tabs open at once, OpenDocument values constructed in one run, and
\* versions an editor of the application reaches.
MaxTabs == 2

MaxOpened == 2

MaxTyped == 1

\* OpenDocument::empty. `id` numbers the OpenDocument values in the order of
\* their construction and `loaded` tells the constructor (FALSE: empty, TRUE:
\* from_loaded); `result_of` is the id of the document whose save request's
\* result last changed this document's save state, None before. The three are
\* observers, no fields of the struct.
empty(id) ==
    [ id                   |-> id,
      loaded               |-> FALSE,
      result_of            |-> None,
      path                 |-> None,
      editor               |-> from_text(<<>>),
      last_saved_version   |-> 0,
      pending_save_version |-> None,
      last_save_request    |-> None ]

\* OpenDocument::from_loaded on the Document that load_with_encoding returned
\* for the file of text `text` at `path`.
from_loaded(id, path, text) ==
    [ id                   |-> id,
      loaded               |-> TRUE,
      result_of            |-> None,
      path                 |-> Some(path),
      editor               |-> from_text(text),
      last_saved_version   |-> from_text(text).version,
      pending_save_version |-> None,
      last_save_request    |-> None ]

\* Vec::get with a tab index: the documents hold tab i at position i + 1.
HasTab(docs, tab_id) == tab_id < Len(docs)

\* Vec::remove.
Remove(docs, idx) ==
    [ i \in 1..(Len(docs) - 1) |-> IF i <= idx THEN docs[i] ELSE docs[i + 1] ]

\* The index of the first tab open on `path`, None without one
\* (open_in_new_tab: iter().enumerate().find()).
Existing(docs, path) ==
    IF \E i \in 1..Len(docs) : docs[i].path = Some(path)
    THEN Some(CHOOSE i \in 1..Len(docs) :
                 /\ docs[i].path = Some(path)
                 /\ \A j \in 1..(i - 1) : docs[j].path # Some(path)) 
    ELSE None

\* poll_load_results: the loop over the messages received, on the documents
\* `docs` with `n` OpenDocument values constructed so far.
RECURSIVE poll_load_results(_, _, _)
poll_load_results(docs, msgs, n) ==
    IF msgs = <<>> THEN [documents |-> docs, opened |-> n]
    ELSE IF HasTab(docs, Head(msgs).tab_id)
    THEN poll_load_results(
             [ docs EXCEPT ![Head(msgs).tab_id + 1] =
                   from_loaded(n, Head(msgs).path, Head(msgs).text) ],
             Tail(msgs), n + 1)
    ELSE poll_load_results(docs, Tail(msgs), n)

\* poll_save_results: the loop over the messages received. A message is
\* [saved, tab_id, version]; `doc` is the id of the document the request was
\* made for (observer).
RECURSIVE poll_save_results(_, _)
poll_save_results(docs, msgs) ==
    IF msgs = <<>> THEN docs
    ELSE
    LET m == Head(msgs)
        d == docs[m.tab_id + 1]
    IN  IF ~HasTab(docs, m.tab_id) THEN poll_save_results(docs, Tail(msgs))
        ELSE IF m.saved
        THEN poll_save_results(
                 [ docs EXCEPT ![m.tab_id + 1] =
                       [ d EXCEPT !.pending_save_version = None,
                                  !.last_saved_version = m.version,
                                  !.result_of = Some(m.doc) ] ],
                 Tail(msgs))
        ELSE IF d.pending_save_version = Some(m.version)
        THEN poll_save_results(
                 [ docs EXCEPT ![m.tab_id + 1] =
                       [ d EXCEPT !.pending_save_version = None,
                                  !.result_of = Some(m.doc) ] ],
                 Tail(msgs))
        ELSE poll_save_results(docs, Tail(msgs))

\* active_document_mut: the index it settles on.
active_document_mut(docs, active) == IF active >= Len(docs) THEN 0 ELSE active

\* maybe_autosave_active_doc: none of its early returns is taken for the
\* document d; `within` tells whether less than AUTOSAVE_INTERVAL has passed
\* since d.last_save_request.
autosave_due(d, within) ==
    /\ d.path # None
    /\ d.pending_save_version = None
    /\ d.editor.version # d.last_saved_version
    /\ ~(d.last_save_request # None /\ within)

\* RustideApp::new without an initial path; every file exists.
InitApp ==
    /\ NoEditor
    /\ NoTabs
    /\ fs = [ p \in Paths |-> FileText ]
    /\ NoWatcher

\* What no step of the application touches.
OutsideApp ==
    /\ UNCHANGED << editor_vars, cmd, codec_vars, syntax_vars, watcher_vars >>

\* update: self.poll_load_results().
PollLoadResults ==
    /\ update_at = "poll_load_results"
    /\ documents' = poll_load_results(documents, load_rx, opened).documents
    /\ opened' = poll_load_results(documents, load_rx, opened).opened
    /\ load_rx' = <<>>
    /\ update_at' = "poll_save_results"
    /\ UNCHANGED << active_doc, load_tx, save_tx, save_rx, fs >>
    /\ OutsideApp

\* update: self.poll_save_results().
PollSaveResults ==
    /\ update_at = "poll_save_results"
    /\ documents' = poll_save_results(documents, save_rx)
    /\ save_rx' = <<>>
    /\ update_at' = "ui"
    /\ UNCHANGED << active_doc, load_tx, load_rx, save_tx, fs, opened >>
    /\ OutsideApp

\* update, the panels: a file is picked or dropped (open_in_new_tab), which
\* selects the tab of a file that is open already.
OpenInNewTab ==
    \E path \in Paths :
        /\ update_at = "ui"
        /\ IF Existing(documents, path) # None
           THEN /\ active_doc' = Existing(documents, path)[1] - 1
                /\ UNCHANGED << documents, load_tx, opened >>
           ELSE /\ Len(documents) < MaxTabs
                /\ opened < MaxOpened
                /\ documents' = Append(documents, [ empty(opened) EXCEPT !.path = Some(path) ])
                /\ active_doc' = Len(documents)
                /\ load_tx' = Append(load_tx, [ tab_id |-> Len(documents), path |-> path ])
                /\ opened' = opened + 1
        /\ update_at' = "maybe_autosave_active_doc"
        /\ UNCHANGED << load_rx, save_tx, save_rx, fs >>
        /\ OutsideApp

\* update, the editor of the active tab: a text event (Editor::insert_text).
TypeText ==
    /\ update_at = "ui"
    /\ HasTab(documents, active_doc)
    /\ documents[active_doc + 1].editor.version < MaxTyped
    /\ documents' = [ documents EXCEPT ![active_doc + 1].editor = insert_text(@, << "a" >>) ]
    /\ update_at' = "maybe_autosave_active_doc"
    /\ UNCHANGED << active_doc, load_tx, load_rx, save_tx, save_rx, fs, opened >>
    /\ OutsideApp

\* update, the tab strip: a tab's close button (close_tab).
CloseTab ==
    \E idx \in 0..(Len(documents) - 1) :
        /\ update_at = "ui"
        /\ IF Len(documents) > 1
           THEN /\ documents' = Remove(documents, idx)
                /\ active_doc' = Min(active_doc, Len(documents) - 2)
                /\ opened' = opened
           ELSE /\ opened < MaxOpened
                /\ documents' = << empty(opened) >>
                /\ active_doc' = 0
                /\ opened' = opened + 1
        /\ update_at' = "maybe_autosave_active_doc"
        /\ UNCHANGED << load_tx, load_rx, save_tx, save_rx, fs >>
        /\ OutsideApp

\* update, a frame without input.
NoInput ==
    /\ update_at = "ui"
    /\ update_at' = "maybe_autosave_active_doc"
    /\ UNCHANGED << documents, active_doc, load_tx, load_rx, save_tx, save_rx, fs, opened >>
    /\ OutsideApp

\* update: self.maybe_autosave_active_doc().
MaybeAutosaveActiveDoc ==
    \E within \in BOOLEAN :
    /\ update_at = "maybe_autosave_active_doc"
    /\ update_at' = "poll_load_results"
    /\ IF documents = <<>> THEN UNCHANGED << documents, active_doc, save_tx >>
       ELSE
       LET active == active_document_mut(documents, active_doc)
           d      == documents[active + 1]
       IN  /\ active_doc' = active
           /\ IF ~autosave_due(d, within) THEN UNCHANGED << documents, save_tx >>
              ELSE /\ save_tx' = Append(save_tx,
                                        [ tab_id  |-> active,
                                          path    |-> d.path[1],
                                          text    |-> d.editor.rope,
                                          version |-> d.editor.version,
                                          doc     |-> d.id,
                                          loaded  |-> d.loaded ])
                   /\ documents' = [ documents EXCEPT
                                       ![active + 1].pending_save_version = Some(d.editor.version),
                                       ![active + 1].last_save_request = Some("now") ]
    /\ UNCHANGED << load_tx, load_rx, save_rx, fs, opened >>
    /\ OutsideApp

\* The load thread: one request, Document::load_with_encoding of its path.
LoadThread ==
    /\ load_tx # <<>>
    /\ load_tx' = Tail(load_tx)
    /\ load_rx' = Append(load_rx, [ tab_id |-> Head(load_tx).tab_id,
                                    path   |-> Head(load_tx).path,
                                    text   |-> fs[Head(load_tx).path] ])
    /\ UNCHANGED << documents, active_doc, save_tx, save_rx, fs, update_at, opened >>
    /\ OutsideApp

\* The save thread: one request, std::fs::write of its text, which succeeds or
\* fails.
SaveThread ==
    \E ok \in BOOLEAN :
        /\ save_tx # <<>>
        /\ save_tx' = Tail(save_tx)
        /\ fs' = IF ok THEN [ fs EXCEPT ![Head(save_tx).path] = Head(save_tx).text ] ELSE fs
        /\ save_rx' = Append(save_rx, [ saved   |-> ok,
                                        tab_id  |-> Head(save_tx).tab_id,
                                        version |-> Head(save_tx).version,
                                        doc     |-> Head(save_tx).doc ])
        /\ UNCHANGED << documents, active_doc, load_tx, load_rx, update_at, opened >>
        /\ OutsideApp

NextApp ==
    \/ PollLoadResults
    \/ PollSaveResults
    \/ OpenInNewTab
    \/ TypeText
    \/ CloseTab
    \/ NoInput
    \/ MaybeAutosaveActiveDoc
    \/ LoadThread
    \/ SaveThread

\* The application's frames with its two worker threads, in any interleaving.
SpecApp == InitApp /\ [][NextApp]_vars

\* ------------------------------------------------------------------------
\* The project watcher's debounce thread (watcher.rs, project.rs)
\* ------------------------------------------------------------------------

\* recv_timeout(Duration::from_millis(50)) of debounce_events.
POLL_MS == 50

\* The delay run_worker hands to debounce_events.
DELAY_MS == 250

\* The clock advances by half a poll, so that events fall on and between the
\* instants at which a poll that began with the loop times out.
Granule == POLL_MS \div 2

\* Raw events sent in one run, and the time after which the clock advances
\* only while a change waits to be forwarded.
MaxRaw == 3

MaxClock == 300

ProjectEvents == { "Changed", "Error" }

\* One iteration of debounce_events that forwards a change when it receives it.
debounce_iteration_at_once(last, received, instant, delay) ==
    [ last_changed |-> None,
      error        |-> IF received = Some("Error") THEN << "Error" >> ELSE <<>>,
      changed      |-> IF received = Some("Changed") \/ last # None
                       THEN << "Changed" >> ELSE <<>> ]

\* One iteration of the loop of debounce_events that does not break: the match
\* on what recv_timeout returned (Some(event), or None for Timeout) at the
\* instant `instant`, then the check of last_changed. The events it sends, in
\* order, are `error` and `changed`.
debounce_iteration(last, received, instant, delay) ==
    LET t == IF received = Some("Changed") THEN Some(instant) ELSE last
        due == t # None /\ instant - t[1] >= delay
    IN  [ last_changed |-> IF due THEN None ELSE t,
          error        |-> IF received = Some("Error") THEN << "Error" >> ELSE <<>>,
          changed      |-> IF due THEN << "Changed" >> ELSE <<>> ]

\* run_worker has started the watcher and spawned debounce_events, which is
\* in its first recv_timeout.
InitWatch ==
    /\ NoEditor
    /\ NoTabs
    /\ fs = <<>>
    /\ wclock = 0
    /\ raw = <<>>
    /\ connected = TRUE
    /\ last_changed = None
    /\ deadline = POLL_MS
    /\ running = TRUE
    /\ debounced = <<>>
    /\ sent = 0

\* What no step of the watcher touches.
OutsideWatcher ==
    /\ UNCHANGED << editor_vars, cmd, codec_vars, syntax_vars, app_vars >>

\* The watcher's callback sends an event on the raw channel.
WatcherSends ==
    \E event \in ProjectEvents :
        /\ connected
        /\ sent < MaxRaw
        /\ raw' = Append(raw, [ event |-> event, at |-> wclock ])
        /\ sent' = sent + 1
        /\ UNCHANGED << wclock, connected, last_changed, deadline, running, debounced >>
        /\ OutsideWatcher

\* run_worker returns: the watcher and with it the raw sender are dropped.
WatcherDropped ==
    /\ connected
    /\ connected' = FALSE
    /\ UNCHANGED << wclock, raw, last_changed, deadline, running, debounced, sent >>
    /\ OutsideWatcher

\* The loop's iteration on what recv_timeout returned; the next recv_timeout
\* begins.
Iteration(received) ==
    /\ last_changed' = debounce_iteration(last_changed, received, wclock, DELAY_MS).last_changed
    /\ debounced' = debounced
                    \o debounce_iteration(last_changed, received, wclock, DELAY_MS).error
                    \o debounce_iteration(last_changed, received, wclock, DELAY_MS).changed
    /\ deadline' = wclock + POLL_MS
    /\ UNCHANGED << wclock, connected, running, sent >>
    /\ OutsideWatcher

\* recv_timeout returns Ok(event): an event is in the channel.
Received ==
    /\ running
    /\ raw # <<>>
    /\ raw' = Tail(raw)
    /\ Iteration(Some(Head(raw).event))

\* recv_timeout returns Err(Timeout).
TimedOut ==
    /\ running
    /\ raw = <<>>
    /\ connected
    /\ wclock >= deadline
    /\ raw' = raw
    /\ Iteration(None)

\* recv_timeout returns Err(Disconnected): the channel is empty and the sender
\* is gone; the loop breaks.
Disconnected ==
    /\ running
    /\ raw = <<>>
    /\ ~connected
    /\ running' = FALSE
    /\ UNCHANGED << wclock, raw, connected, last_changed, deadline, debounced, sent >>
    /\ OutsideWatcher

\* Time passes while the thread is blocked in recv_timeout: the channel is
\* empty, the sender exists and the timeout has not been reached.
Elapse ==
    /\ running
    /\ connected
    /\ raw = <<>>
    /\ wclock < deadline
    /\ wclock < MaxClock \/ last_changed # None
    /\ wclock' = wclock + Granule
    /\ UNCHANGED << raw, connected, last_changed, deadline, running, debounced, sent >>
    /\ OutsideWatcher

NextWatch ==
    \/ WatcherSends
    \/ WatcherDropped
    \/ Received
    \/ TimedOut
    \/ Disconnected
    \/ Elapse

\* The debounce thread and the watcher. The thread is scheduled (it returns
\* from recv_timeout when an event, the timeout or the disconnection is there)
\* and time passes.
SpecWatch ==
    /\ InitWatch
    /\ [][NextWatch]_vars
    /\ WF_vars(Received)
    /\ WF_vars(TimedOut)
    /\ WF_vars(Disconnected)
    /\ WF_vars(Elapse)

\* ------------------------------------------------------------------------
\* Properties
\* ------------------------------------------------------------------------

\* What the observer counted: N committed mutations, of which K are undone.
UndoneCount == Len(pre.redo)

MutationCount == Len(pre.undo) + Len(pre.redo)

\* C1: whenever the undo stack is non-empty, undo() immediately followed by
\* redo() leaves the buffer text as it was before the undo; whenever the redo
\* stack is non-empty, redo() immediately followed by undo() leaves the text
\* as it was before the redo.
C1_UndoRedoRestoresText ==
    /\ history.undo # <<>> => redo(undo(Ed).editor).editor.rope = rope
    /\ history.redo # <<>> => undo(redo(Ed).editor).editor.rope = rope

\* A replacement (text deleted and text inserted) has been undone and redone.
C1_Witness ==
    /\ cmd = "redo"
    /\ Top(history.undo).deleted # <<>>
    /\ Top(history.undo).inserted # <<>>
    /\ history.redo = <<>>

\* C2: in a state reached by mutating commands alone, undo() immediately
\* followed by redo() leaves anchor and cursor as they were before the undo,
\* and redo() immediately followed by undo() leaves them as they were before
\* the redo.
C2_UndoRedoRestoresSelection ==
    /\ history.undo # <<>> => redo(undo(Ed).editor).editor.selection = selection
    /\ history.redo # <<>> => undo(redo(Ed).editor).editor.selection = selection

\* C3: a successful undo() leaves the text and the selection exactly as they
\* were just before the undone mutation was applied, and once every mutation
\* is undone the text is the text the editor was constructed from.
C3_UndoRestoresStateBeforeMutation ==
    /\ cmd = "undo" =>
          /\ rope = Top(pre.redo).rope
          /\ selection = Top(pre.redo).selection
    /\ history.undo = <<>> => rope = text0

\* An edit that replaced a non-empty selection has been undone, back to the
\* initial text.
C3_Witness ==
    /\ cmd = "undo"
    /\ ~is_empty(selection)
    /\ Top(history.redo).deleted # <<>>
    /\ history.undo = <<>>
    /\ text0 # <<>>

\* C4: after N committed mutations on a fresh editor the undo stack holds N
\* records and the redo stack none; after K further undo() calls the redo
\* stack holds K records and the undo stack N - K.
C4_StackDepths ==
    /\ phase = "mutations" =>
          /\ Len(history.undo) = MutationCount
          /\ Len(history.redo) = 0
    /\ phase = "undos" =>
          /\ Len(history.redo) = UndoneCount
          /\ Len(history.undo) = MutationCount - UndoneCount

\* Two mutations, then one undo.
C4_Witness ==
    /\ phase = "undos"
    /\ MutationCount = 2
    /\ UndoneCount = 1
    /\ Len(history.undo) = 1

\* C5: right after a committed insert_text, backspace, delete_forward or
\* insert_newline_auto_indent the redo stack is empty and redo() returns false
\* and changes nothing.
C5_MutationClearsRedo ==
    cmd \in MutatingCmds =>
        /\ history.redo = <<>>
        /\ ~redo(Ed).returns
        /\ redo(Ed).editor = Ed

\* A mutation committed while the redo stack held a record: edit, undo, edit.
C5_Witness ==
    /\ cmd \in MutatingCmds
    /\ phase = "mixed"
    /\ MutationCount = 1
    /\ Len(history.undo) = 1

\* C6: with a collapsed selection insert_text("") changes nothing: text,
\* selection, version, both stacks and the pending edit descriptor stay as
\* they are.
C6_EmptyInsertIsNoOp ==
    is_empty(selection) => insert_text(Ed, <<>>) = Ed

\* A collapsed selection with a record on the redo stack and an edit
\* descriptor pending, where insert_text("") leaves all of it alone.
C6_Witness ==
    /\ is_empty(selection)
    /\ history.redo # <<>>
    /\ last_edit # None
    /\ insert_text(Ed, <<>>).history.redo = history.redo

\* C7: undo() on an empty undo stack and redo() on an empty redo stack return
\* false and change nothing; on a non-empty stack each returns true.
C7_EmptyStackIsNoOp ==
    /\ undo(Ed).returns = (history.undo # <<>>)
    /\ redo(Ed).returns = (history.redo # <<>>)
    /\ history.undo = <<>> => undo(Ed).editor = Ed
    /\ history.redo = <<>> => redo(Ed).editor = Ed

\* An empty undo stack while the redo stack, the preferred column or the
\* pending descriptor hold something undo() must not touch.
C7_Witness ==
    /\ history.undo = <<>>
    /\ ~undo(Ed).returns
    /\ history.redo # <<>>
    /\ last_edit # None
    /\ redo(Ed).returns

\* C8: the version never decreases; a step that commits a mutation, an undo
\* or a redo raises it by exactly one, every other step (cursor and selection
\* commands, take_last_edit, no-op calls) leaves it unchanged.
C8_VersionCountsCommits ==
    [][ /\ version' >= version
        /\ pre' # pre => version' = version + 1
        /\ pre' = pre => version' = version ]_vars

\* An edit, its undo and its redo have each bumped the version.
C8_Witness ==
    /\ cmd = "redo"
    /\ MutationCount = 1
    /\ version = 3

\* C9: anchor and cursor lie in [0, len(Buffer)], and range() is
\* [min(anchor, cursor), max(anchor, cursor)), so start <= end.
C9_SelectionInBounds ==
    /\ selection.anchor \in 0..len_chars(rope)
    /\ selection.cursor \in 0..len_chars(rope)
    /\ range(selection).start = Min(selection.anchor, selection.cursor)
    /\ range(selection).end = Max(selection.anchor, selection.cursor)
    /\ range(selection).start <= range(selection).end

\* select_range with a start past the end of the buffer and a reversed range
\* has clamped the anchor to the end of a non-empty buffer.
C9_Witness ==
    /\ cmd = "view"
    /\ len_chars(rope) > 0
    /\ selection = [anchor |-> len_chars(rope), cursor |-> 0]
    /\ history.undo # <<>>

\* A step pushed exactly one new record (clearing the redo stack).
Pushed ==
    /\ Len(history'.undo) = Len(history.undo) + 1
    /\ Pop(history'.undo) = history.undo
    /\ history'.redo = <<>>

\* A step moved the top record of one stack onto the other.
Moved ==
    \/ /\ history.undo # <<>>
       /\ history'.undo = Pop(history.undo)
       /\ history'.redo = Append(history.redo, Top(history.undo))
    \/ /\ history.redo # <<>>
       /\ history'.redo = Pop(history.redo)
       /\ history'.undo = Append(history.undo, Top(history.redo))

SelStart == Min(selection.anchor, selection.cursor)

SelEnd == Max(selection.anchor, selection.cursor)

\* C11: insert_text(text) with selection range [s, e), text non-empty or
\* s < e, produces old[0..s) + text + old[e..) and a collapsed selection at
\* s + charCount(text), whichever of anchor and cursor comes first.
C11_InsertReplacesSelection ==
    \A text \in InsertTexts :
        (text # <<>> \/ SelStart < SelEnd) =>
            /\ insert_text(Ed, text).rope =
                   slice(rope, 0, SelStart) \o text \o slice(rope, SelEnd, len_chars(rope))
            /\ insert_text(Ed, text).selection = collapsed(SelStart + Len(text))

\* insert_text has replaced a selection whose cursor was before its anchor.
C11_Witness ==
    /\ cmd = "insert_text"
    /\ Top(pre.undo).selection.cursor < Top(pre.undo).selection.anchor
    /\ Top(history.undo).inserted # <<>>
    /\ Top(history.undo).deleted # <<>>
    /\ is_empty(selection)

\* C12: with a non-empty selection backspace and delete_forward delete
\* exactly the selected range; with a collapsed cursor at c backspace deletes
\* exactly the character at [c-1, c) and delete_forward the one at [c, c+1);
\* backspace at c = 0 and delete_forward at c = len(Buffer) change nothing
\* (no history record, no version bump).
C12_DeleteOneOrSelection ==
    LET c == selection.cursor
        n == len_chars(rope)
    IN  /\ SelStart < SelEnd =>
              /\ backspace(Ed).rope = slice(rope, 0, SelStart) \o slice(rope, SelEnd, n)
              /\ delete_forward(Ed).rope = slice(rope, 0, SelStart) \o slice(rope, SelEnd, n)
        /\ is_empty(selection) /\ c > 0 =>
              backspace(Ed).rope = slice(rope, 0, c - 1) \o slice(rope, c, n)
        /\ is_empty(selection) /\ c < n =>
              delete_forward(Ed).rope = slice(rope, 0, c) \o slice(rope, c + 1, n)
        /\ is_empty(selection) /\ c = 0 => backspace(Ed) = Ed
        /\ is_empty(selection) /\ c = n => delete_forward(Ed) = Ed

\* delete_forward with a collapsed cursor at the start of a buffer of two or
\* more characters has deleted one character, leaving the cursor at offset 0,
\* where backspace is a no-op and delete_forward is not.
C12_Witness ==
    /\ cmd = "delete_forward"
    /\ is_empty(Top(pre.undo).selection)
    /\ Len(Top(history.undo).deleted) = 1
    /\ selection = collapsed(0)
    /\ len_chars(rope) > 0
    /\ backspace(Ed) = Ed
    /\ delete_forward(Ed) # Ed

\* The descriptor of a mutation that replaced `removed` by `added` at character
\* offset start, taking text r to text r2.
DescriptorOf(r, r2, start, removed, added) ==
    [ start_byte    |-> byte_len(slice(r, 0, start)),
      old_end_byte  |-> byte_len(slice(r, 0, start)) + byte_len(removed),
      new_end_byte  |-> byte_len(slice(r, 0, start)) + byte_len(added),
      start_point   |-> point_for_char(r, start),
      old_end_point |-> point_for_char(r, start + Len(removed)),
      new_end_point |-> point_for_char(r2, start + Len(added)) ]

\* A step that commits a mutation, an undo or a redo leaves that mutation's
\* descriptor pending.
C13_Produced ==
    pre' # pre =>
        last_edit' =
            IF cmd' = "undo"
            THEN Some(DescriptorOf(rope, rope', Top(history'.redo).start,
                                   Top(history'.redo).inserted, Top(history'.redo).deleted))
            ELSE Some(DescriptorOf(rope, rope', Top(history'.undo).start,
                                   Top(history'.undo).deleted, Top(history'.undo).inserted))

\* A step that commits nothing produces no descriptor: the pending one stays
\* or is taken.
C13_NoOpProducesNone ==
    pre' = pre => last_edit' \in { last_edit, None }

\* take_last_edit() returns the pending descriptor, and a second take with no
\* mutation in between returns none.
C13_TakeOnce ==
    /\ take_last_edit([Ed EXCEPT !.last_edit = last_edit']).returns = last_edit'
    /\ take_last_edit(take_last_edit([Ed EXCEPT !.last_edit = last_edit']).editor).returns = None

\* A pending descriptor goes away only by being taken.
C13_NeverLost ==
    last_edit # None =>
        \/ pre' = pre /\ last_edit' = last_edit
        \/ pre' = pre /\ last_edit' = None /\ rope' = rope /\ selection' = selection

\* C13: every committed mutation (undo and redo included) leaves its edit
\* descriptor pending, take_last_edit() returns it once and then none, no-op
\* commands produce no descriptor, and no descriptor is lost before it has
\* been taken.
C13_DescriptorConsumedOnce ==
    [][ C13_Produced /\ C13_NoOpProducesNone /\ C13_TakeOnce /\ C13_NeverLost ]_vars

\* The line a vertical move by d (-1 up, 1 down) from line `line` goes to.
TargetLine(r, line, d) ==
    IF d < 0 THEN Max(line - 1, 0) ELSE Min(line + 1, len_lines(r) - 1)

\* The character at i belongs to a line terminator: it is "\n", or a "\r"
\* directly before a "\n".
Terminator(r, i) ==
    \/ r[i] = "\n"
    \/ r[i] = "\r" /\ i < Len(r) /\ r[i + 1] = "\n"

\* The number of characters of a line before its terminator.
VisibleLen(r, line) ==
    Cardinality({ i \in 1..Len(r) : breaks_before(r, i - 1) = line /\ ~Terminator(r, i) })

\* The column a vertical move from the current state tries to reach.
DesiredColumn == unwrap_or(preferred_column, cursor_line_col(Ed).col)

\* The step is a vertical move by d1 that took the cursor to another line,
\* shorter than the desired column, and so to that line's visible end.
LandsClamped(d1, x1) ==
    LET line == cursor_line_col(Ed).line
        t1   == TargetLine(rope, line, d1)
    IN  /\ selection' = move_vertical(Ed, d1, x1).selection
        /\ preferred_column' = move_vertical(Ed, d1, x1).preferred_column
        /\ t1 # line
        /\ VisibleLen(rope, t1) < DesiredColumn
        /\ selection'.cursor = line_to_char(rope, t1) + VisibleLen(rope, t1)

CurLine == breaks_before(rope, selection.cursor)

CurLineStart == line_to_char(rope, CurLine)

CurLineEnd == CurLineStart + VisibleLen(rope, CurLine)

\* baseIndent: the run of leading spaces and tabs of the cursor's line.
BaseIndent ==
    LET run == { k \in 0..(CurLineEnd - CurLineStart) :
                   \A i \in 0..(k - 1) : char_at(rope, CurLineStart + i) \in { " ", "\t" } }
    IN  slice(rope, CurLineStart, CurLineStart + Cardinality(run) - 1)

\* The text before the cursor on its line, trailing whitespace stripped, ends
\* with '{'.
OpensBlock ==
    \E i \in CurLineStart..(selection.cursor - 1) :
        /\ char_at(rope, i) = "{"
        /\ \A j \in (i + 1)..(selection.cursor - 1) : is_whitespace(char_at(rope, j))

\* The text after the cursor on its line, leading whitespace stripped, starts
\* with '}'.
ClosesBlock ==
    \E i \in selection.cursor..(CurLineEnd - 1) :
        /\ char_at(rope, i) = "}"
        /\ \A j \in selection.cursor..(i - 1) : is_whitespace(char_at(rope, j))

\* indent minus one trailing indent unit: four spaces, else one tab, else
\* nothing.
Dedented(indent) ==
    LET n == Len(indent)
    IN  IF n >= 4 /\ \A i \in (n - 3)..n : indent[i] = " " THEN SubSeq(indent, 1, n - 4)
        ELSE IF n >= 1 /\ indent[n] = "\t" THEN SubSeq(indent, 1, n - 1)
        ELSE indent

\* nextIndent of the claim, for a state where the brace conditions do not
\* both hold.
ExpectedIndent ==
    IF OpensBlock THEN BaseIndent \o << " ", " ", " ", " " >>
    ELSE IF ClosesBlock THEN Dedented(BaseIndent)
    ELSE BaseIndent

\* C15: when the two brace conditions do not both hold,
\* insert_newline_auto_indent replaces the selection by "\n" + nextIndent and
\* leaves a collapsed cursor at the end of the inserted text; "{\n}" with the
\* cursor at 1 becomes "{\n    \n}" with the cursor at 6, and
\* "    let x = 1;" with the cursor at the end becomes "    let x = 1;\n    ".
C15_NewlineKeepsIndent ==
    /\ ~(OpensBlock /\ ClosesBlock) =>
          /\ insert_newline_auto_indent(Ed).rope =
                 slice(rope, 0, SelStart) \o << "\n" >> \o ExpectedIndent
                     \o slice(rope, SelEnd, len_chars(rope))
          /\ insert_newline_auto_indent(Ed).selection =
                 collapsed(SelStart + 1 + Len(ExpectedIndent))
    /\ rope = << "{", "\n", "}" >> /\ selection = collapsed(1) =>
          /\ insert_newline_auto_indent(Ed).rope =
                 << "{", "\n", " ", " ", " ", " ", "\n", "}" >>
          /\ insert_newline_auto_indent(Ed).selection = collapsed(6)
    /\ rope = << " ", " ", " ", " ", "l", "e", "t", " ", "x", " ", "=", " ", "1", ";" >>
         /\ selection = collapsed(14) =>
          insert_newline_auto_indent(Ed).rope = rope \o << "\n", " ", " ", " ", " " >>

\* insert_newline_auto_indent has turned "{\n}" with the cursor at 1 into
\* "{\n    \n}" with the cursor at 6.
C15_Witness ==
    /\ cmd = "insert_newline_auto_indent"
    /\ Top(pre.undo).rope = << "{", "\n", "}" >>
    /\ Top(pre.undo).selection = collapsed(1)
    /\ rope = << "{", "\n", " ", " ", " ", " ", "\n", "}" >>
    /\ selection = collapsed(6)


\* The bytes of the file after its BOM; None for a file without BOM.
AfterBom(bytes) ==
    IF strip_prefix(bytes, UTF8_BOM) # None THEN strip_prefix(bytes, UTF8_BOM)
    ELSE IF strip_prefix(bytes, UTF16LE_BOM) # None THEN strip_prefix(bytes, UTF16LE_BOM)
    ELSE strip_prefix(bytes, UTF16BE_BOM)

\* The encoding a BOM stands for.
BomEncoding(bytes) ==
    IF strip_prefix(bytes, UTF8_BOM) # None THEN "Utf8Bom"
    ELSE IF strip_prefix(bytes, UTF16LE_BOM) # None THEN "Utf16Le"
    ELSE "Utf16Be"

\* The text that the bytes spell in a Unicode encoding, malformed sequences
\* replaced by U+FFFD.
Decoding(bytes, encoding) ==
    IF encoding = "Utf8Bom" THEN utf8_decode(bytes).text
    ELSE utf16_decode(bytes, encoding = "Utf16Be").text

\* C16: a file that starts with a UTF-8, UTF-16LE or UTF-16BE BOM is decoded
\* in the encoding of that BOM whatever the hint is: the document's encoding
\* is the BOM's, and its text is the decoding, in that encoding, of the bytes
\* after the BOM.
C16_BomBeatsHint ==
    (disk # None /\ AfterBom(disk[1]) # None) =>
        \A h \in TextEncodingHints :
            decode_bytes(disk[1], h) =
                [text |-> Decoding(AfterBom(disk[1])[1], BomEncoding(disk[1])),
                 encoding |-> BomEncoding(disk[1])]

\* C17: a file made of the UTF-8 BOM followed by valid UTF-8 loads, under any
\* hint, as a Utf8Bom document whose text is the decoding of the bytes after
\* the BOM, and saving that document writes the bytes of the file back.
C17_Utf8BomRoundTrip ==
    (/\ disk # None
     /\ strip_prefix(disk[1], UTF8_BOM) # None
     /\ ~utf8_decode(strip_prefix(disk[1], UTF8_BOM)[1]).had_errors) =>
        \A h \in TextEncodingHints :
            LET d == decode_bytes(disk[1], h)
            IN  /\ d.encoding = "Utf8Bom"
                /\ d.text = utf8_decode(strip_prefix(disk[1], UTF8_BOM)[1]).text
                /\ as_bytes(d.text) = strip_prefix(disk[1], UTF8_BOM)[1]
                /\ encode_text(d.text, d.encoding) = disk[1]

\* A file with the UTF-8 BOM and a two-byte character was loaded under the
\* Gbk hint and saved again.
C17_Witness ==
    /\ cmd = "save"
    /\ steps = 2
    /\ hint = "Gbk"
    /\ doc # None
    /\ doc[1] = [text |-> << 233 >>, encoding |-> "Utf8Bom"]
    /\ disk = Some(<< 239, 187, 191, 195, 169 >>)

\* The characters an encoding has a byte sequence for.
Representable(c, encoding) ==
    IF encoding \in { "Gbk", "Big5" }
    THEN LET enc == IF encoding = "Gbk" THEN "GBK" ELSE "BIG5"
         IN  c < 128 \/ \E t \in legacy_index(enc) : t[3] = c
    ELSE TRUE

\* The hint that names an encoding.
HintFor(encoding) ==
    IF encoding = "Utf8Bom" THEN "Utf8" ELSE encoding

\* C18: a text whose characters are all representable in an encoding, encoded
\* in that encoding and decoded again under the hint that names it, is the
\* same text.
C18_EncodeDecodeRoundTrip ==
    (/\ doc # None
     /\ \A i \in 1..Len(doc[1].text) : Representable(doc[1].text[i], doc[1].encoding)) =>
        decode_bytes(encode_text(doc[1].text, doc[1].encoding),
                     HintFor(doc[1].encoding)).text = doc[1].text


\* C19: every span that highlight_spans returns is non-empty and lies inside
\* the window of the call, whatever the window and the cached tree are, a
\* tree with edits that were queued and not yet reparsed included.
C19_SpansInsideWindow ==
    spans # None =>
        \A i \in 1..Len(spans[1].spans) :
            /\ spans[1].byte_range.start <= spans[1].spans[i].byte_range.start
            /\ spans[1].spans[i].byte_range.start < spans[1].spans[i].byte_range.end
            /\ spans[1].spans[i].byte_range.end <= spans[1].byte_range.end

\* highlight_spans returned a span that is a strict part of the node it
\* comes from: the node starts before the window.
C19_Witness ==
    /\ spans # None
    /\ Sy.tree # None
    /\ \E i \in 1..Len(spans[1].spans) : \E j \in 1..Len(Sy.tree[1].nodes) :
          /\ Sy.tree[1].nodes[j].start < spans[1].byte_range.start
          /\ spans[1].spans[i].byte_range.start = spans[1].byte_range.start
          /\ spans[1].spans[i].byte_range.end = Sy.tree[1].nodes[j].end

\* A step that is a call of ensure_parsed, directly or from highlight_spans.
PollStep ==
    \/ cmd' = "ensure_parsed"
    \/ cmd' = "highlight_spans" /\ spans' # None

\* An edit is pending and less than the debounce interval has passed since.
WithinDebounce ==
    /\ Sy.pending_since # None
    /\ now - Sy.pending_since[1] < DEBOUNCE_MS

\* A poll while less than the debounce interval has passed does not reparse.
C20_EarlyPollIdle ==
    (PollStep /\ WithinDebounce) => (reparses' = reparses /\ syntax' = syntax)

\* The first poll at or after the interval reparses once, against the
\* current buffer, and clears the pending marker.
C20_DuePollReparses ==
    (PollStep /\ Sy.pending_since # None /\ ~WithinDebounce) =>
        /\ reparses' = reparses + 1
        /\ syntax'[1].pending_since = None
        /\ syntax'[1].tree = Some(parse_with(Sy.language, rope))
        /\ rope' = rope

\* A poll without pending edit does not reparse.
C20_SettledPollIdle ==
    (PollStep /\ Sy.pending_since = None) => (reparses' = reparses /\ syntax' = syntax)

\* Two reparses are never less than the debounce interval apart.
C20_OneReparsePerInterval ==
    (reparses' # reparses /\ reparsed_at # None) => now - reparsed_at[1] >= DEBOUNCE_MS

\* C20: with edits queued, a poll of ensure_parsed made while less than the
\* debounce interval has passed since the pending-edit timestamp does not
\* reparse, so that polls within one interval reparse at most once in total;
\* the first poll at or after the interval reparses exactly once, against the
\* current buffer, and further polls without new edit do not reparse.
C20_DebouncedReparse ==
    [][ /\ C20_EarlyPollIdle
        /\ C20_DuePollReparses
        /\ C20_SettledPollIdle
        /\ C20_OneReparsePerInterval ]_vars

\* Two edits were queued and the frame at exactly the debounce interval has
\* reparsed them together.
C20_Witness ==
    /\ cmd = "ensure_parsed"
    /\ Sy.language = "Cpp"
    /\ version = 2
    /\ reparses = 1
    /\ reparsed_at = Some(DEBOUNCE_MS)
    /\ now = DEBOUNCE_MS
    /\ Sy.pending_since = None
    /\ Sy.tree = Some(parse_with("Cpp", rope))


\* C21: after every vertical move, extending or not, one that leaves the
\* cursor where it was included, the cached preferred column is the desired
\* column, the one the move tried to reach before clamping.
C21_VerticalCachesDesired ==
    \A d \in {-1, 1}, x \in BOOLEAN :
        move_vertical(Ed, d, x).preferred_column = Some(DesiredColumn)

\* The edits of the editor at the current state that commit.
CommittedEdits ==
    { e2 \in { insert_text(Ed, text) : text \in InsertTexts }
               \cup { insert_newline_auto_indent(Ed), backspace(Ed), delete_forward(Ed),
                      undo(Ed).editor, redo(Ed).editor } :
        e2.version # version }

\* A cached preferred column survives a vertical move.
C22_VerticalKeeps ==
    preferred_column # None =>
        \A d \in {-1, 1}, x \in BOOLEAN :
            move_vertical(Ed, d, x).preferred_column = preferred_column

\* Every horizontal move clears the cached preferred column.
C22_HorizontalClears ==
    \A x \in BOOLEAN :
        /\ move_left(Ed, x).preferred_column = None
        /\ move_right(Ed, x).preferred_column = None
        /\ move_line_start(Ed, x).preferred_column = None
        /\ move_line_end(Ed, x).preferred_column = None

\* Every non-extending set_cursor clears the cached preferred column.
C22_SetCursorClears ==
    \A pos \in 0..MaxLen + 1 : set_cursor(Ed, pos, FALSE).preferred_column = None

\* Every edit, undo and redo included, clears the cached preferred column.
C22_EditClears ==
    \A e2 \in CommittedEdits : e2.preferred_column = None

\* C22: the cached preferred column persists across consecutive vertical
\* moves and is cleared by every horizontal move (extending or not), by every
\* non-extending set_cursor and by every edit, undo and redo included.
C22_PreferredColumnLifetime ==
    /\ C22_VerticalKeeps
    /\ C22_HorizontalClears
    /\ C22_SetCursorClears
    /\ C22_EditClears


\* C23: with a non-empty selection and extend false, move_left collapses the
\* selection to the start of its range and move_right to the end of its
\* range, whichever end the cursor is; in every other case they move the
\* cursor by one character, stopping at 0 and at len(Buffer), and the anchor
\* follows the cursor only when not extending.
C23_HorizontalMove ==
    \A x \in BOOLEAN :
        LET l == move_left(Ed, x).selection
            r == move_right(Ed, x).selection
        IN  IF ~x /\ selection.anchor # selection.cursor
            THEN /\ l = [anchor |-> SelStart, cursor |-> SelStart]
                 /\ r = [anchor |-> SelEnd, cursor |-> SelEnd]
            ELSE /\ l.cursor = Max(selection.cursor - 1, 0)
                 /\ r.cursor = Min(selection.cursor + 1, Len(rope))
                 /\ l.anchor = IF x THEN selection.anchor ELSE l.cursor
                 /\ r.anchor = IF x THEN selection.anchor ELSE r.cursor

\* Extending moves have selected a range whose cursor is its right end, and
\* a move_left from there collapses to the anchor, a move_right to the cursor.
C23_Witness ==
    /\ cmd = "view"
    /\ views > 0
    /\ selection.anchor < selection.cursor
    /\ move_left(Ed, FALSE).selection = collapsed(selection.anchor)
    /\ move_right(Ed, FALSE).selection = collapsed(selection.cursor)


\* The number of characters on the lines before `line`.
LineStart(r, line) ==
    Cardinality({ i \in 1..Len(r) : breaks_before(r, i - 1) < line })

\* C24: a vertical move from a cursor on line L leaves the cursor on line
\* clamp(L - 1 or L + 1, 0, lastLine), at column min(desired, visibleLen) of
\* that line, the visible length leaving out the terminating "\n" and a "\r"
\* directly before it; the cursor is never on or after a line terminator of
\* its line and never outside [0, len(Buffer)].
C24_VerticalMoveLands ==
    \A d \in {-1, 1}, x \in BOOLEAN :
        LET t  == TargetLine(rope, breaks_before(rope, selection.cursor), d)
            c2 == move_vertical(Ed, d, x).selection.cursor
        IN  /\ c2 \in 0..Len(rope)
            /\ breaks_before(rope, c2) = t
            /\ c2 = LineStart(rope, t) + Min(DesiredColumn, VisibleLen(rope, t))
            /\ \A i \in 1..c2 : breaks_before(rope, i - 1) = t => ~Terminator(rope, i)

\* In "ab\r\nccc" a move_up from the end of "ccc" (column 3) has landed at
\* offset 2, before the "\r\n" of the first line.
C24_Witness ==
    /\ rope = << "a", "b", "\r", "\n", "c", "c", "c" >>
    /\ cmd = "view"
    /\ selection.cursor = 2
    /\ preferred_column = Some(3)
    /\ move_down(Ed, FALSE).selection = collapsed(7)


\* The buffer after the selection was replaced by "\n" + indent + "\n" +
\* baseIndent.
BlockSplit(indent) ==
    slice(rope, 0, SelStart) \o << "\n" >> \o indent \o << "\n" >> \o BaseIndent
        \o slice(rope, SelEnd, len_chars(rope))

\* C25: when the text before the cursor ends, whitespace aside, with '{' and
\* the text after it starts, whitespace aside, with '}',
\* insert_newline_auto_indent replaces the selection by "\n" + nextIndent +
\* "\n" + baseIndent and leaves a collapsed cursor at the end of the
\* nextIndent line, at (start of the selection range) + 1 + charCount of
\* nextIndent, for every selection, a non-empty one whose anchor precedes the
\* cursor included.  nextIndent is the indent the brace rules give: baseIndent
\* plus one unit, or baseIndent minus one unit.
C25_BlockSplitCursor ==
    (OpensBlock /\ ClosesBlock) =>
        \E indent \in { BaseIndent \o << " ", " ", " ", " " >>, Dedented(BaseIndent) } :
            /\ insert_newline_auto_indent(Ed).rope = BlockSplit(indent)
            /\ insert_newline_auto_indent(Ed).selection =
                   collapsed(SelStart + 1 + Len(indent))

\* C26: with a collapsed cursor directly between '{' and '}',
\* insert_newline_auto_indent puts the braces on three lines: the cursor is on
\* the middle line behind the base indent plus one indent unit, and the
\* closing brace is on a line of its own at the base indent.
C26_BracesSplitIndented ==
    (/\ is_empty(selection)
     /\ selection.cursor \in 1..(len_chars(rope) - 1)
     /\ char_at(rope, selection.cursor - 1) = "{"
     /\ char_at(rope, selection.cursor) = "}") =>
        /\ insert_newline_auto_indent(Ed).rope =
               BlockSplit(BaseIndent \o << " ", " ", " ", " " >>)
        /\ insert_newline_auto_indent(Ed).selection =
               collapsed(selection.cursor + 1 + Len(BaseIndent) + 4)


\* The UTF-8 byte offset of character offset i of text r.
ByteOffset(r, i) == byte_len(SubSeq(r, 1, i))

\* The (row, byte column) of character offset i of text r, counted on the
\* characters: the row is the number of "\n" before i, the column the bytes
\* between the last of them and i.
PointOf(r, i) ==
    LET breaks == { j \in 1..i : r[j] = "\n" }
        from   == IF breaks = {} THEN 0 ELSE CHOOSE j \in breaks : \A k \in breaks : k <= j
    IN  [ row |-> Cardinality(breaks), column |-> byte_len(SubSeq(r, from + 1, i)) ]

\* The descriptor of replacing the range [s, e) of text r by ins, giving
\* text r2: byte offsets and points counted on the characters.
Replacement(r, r2, s, e, ins) ==
    [ start_byte    |-> ByteOffset(r, s),
      old_end_byte  |-> ByteOffset(r, e),
      new_end_byte  |-> ByteOffset(r, s) + byte_len(ins),
      start_point   |-> PointOf(r, s),
      old_end_point |-> PointOf(r, e),
      new_end_point |-> PointOf(r2, s + Len(ins)) ]

\* C27: a mutation that replaces the character range [s, e) of the text by
\* ins leaves the descriptor whose start_byte and old_end_byte are the UTF-8
\* byte offsets of s and e in the text before the edit, whose new_end_byte is
\* start_byte plus the byte length of ins, and whose three points are the
\* (row, byte column) of the same positions (the new end in the text after
\* the edit).  The byte length of the new text is the old one minus
\* (old_end_byte - start_byte) plus (new_end_byte - start_byte), and
\* start_byte is at most old_end_byte and at most new_end_byte, with
\* multi-byte characters and line breaks in the text and in ins.
C27_DescriptorFields ==
    [][ (pre' # pre /\ cmd' \in MutatingCmds) =>
            LET s   == Top(history'.undo).start
                e   == Top(history'.undo).start + Len(Top(history'.undo).deleted)
                ins == Top(history'.undo).inserted
                d   == last_edit'[1]
            IN  /\ rope' = SubSeq(rope, 1, s) \o ins \o SubSeq(rope, e + 1, Len(rope))
                /\ last_edit' = Some(Replacement(rope, rope', s, e, ins))
                /\ d.new_end_byte = d.start_byte + byte_len(ins)
                /\ byte_len(rope') =
                       byte_len(rope) - (d.old_end_byte - d.start_byte)
                           + (d.new_end_byte - d.start_byte)
                /\ d.start_byte <= d.old_end_byte
                /\ d.start_byte <= d.new_end_byte ]_vars

\* insert_text has replaced a selection that held a line break by "é\n" behind
\* a two-byte character: the pending descriptor has a start_byte larger than
\* the start's character offset, an old end on a later row than the start, and
\* a new end three bytes behind the start at column 0 of the next row.
C27_Witness ==
    /\ cmd = "insert_text"
    /\ last_edit # None
    /\ Top(history.undo).inserted = << "é", "\n" >>
    /\ last_edit[1].start_byte > Top(history.undo).start
    /\ last_edit[1].old_end_point.row > last_edit[1].start_point.row
    /\ last_edit[1].new_end_byte = last_edit[1].start_byte + 3
    /\ last_edit[1].new_end_point = [row |-> last_edit[1].start_point.row + 1, column |-> 0]


\* Descriptor u describes the reverse of the mutation descriptor d describes.
ReverseOf(u, d) ==
    /\ u.start_byte = d.start_byte
    /\ u.start_point = d.start_point
    /\ u.old_end_byte = d.new_end_byte
    /\ u.old_end_point = d.new_end_point
    /\ u.new_end_byte = d.old_end_byte
    /\ u.new_end_point = d.old_end_point

\* C28: when a mutation has just left descriptor D, an immediate undo emits
\* the descriptor with D's start, D's new end as old end and D's old end as
\* new end (bytes and points), and a redo right after that undo emits D
\* again; so after any undo the pending descriptor is the reverse of the one
\* an immediate redo emits.
C28_UndoDescriptorReverses ==
    /\ (cmd \in MutatingCmds /\ last_edit # None) =>
          /\ undo(Ed).returns
          /\ undo(Ed).editor.last_edit # None
          /\ ReverseOf(undo(Ed).editor.last_edit[1], last_edit[1])
          /\ redo(undo(Ed).editor).returns
          /\ redo(undo(Ed).editor).editor.last_edit = last_edit
    /\ (cmd = "undo" /\ last_edit # None) =>
          /\ redo(Ed).returns
          /\ redo(Ed).editor.last_edit # None
          /\ ReverseOf(last_edit[1], redo(Ed).editor.last_edit[1])

\* undo has just taken back a mutation that had replaced text holding a line
\* break by "é\n": its pending descriptor has different old and new ends, in
\* bytes and in points, and an old end on the row below the start.
C28_Witness ==
    /\ cmd = "undo"
    /\ last_edit # None
    /\ Top(history.redo).inserted = << "é", "\n" >>
    /\ Top(history.redo).deleted # <<>>
    /\ last_edit[1].old_end_byte = last_edit[1].start_byte + 3
    /\ last_edit[1].old_end_byte # last_edit[1].new_end_byte
    /\ last_edit[1].old_end_point.row = last_edit[1].start_point.row + 1
    /\ last_edit[1].old_end_point # last_edit[1].new_end_point


\* The bytes are the UTF-8 encoding of some text.
StrictUtf8(bytes) == ~utf8_decode(bytes).had_errors

\* C29: a file without BOM, decoded with hint Auto, always yields a document,
\* whose encoding is a function of the bytes: Utf8, with a text whose UTF-8
\* encoding is the file's bytes, when the bytes are strictly valid UTF-8;
\* otherwise Big5 with the Big5 decoding when the GBK decode had errors and
\* the Big5 decode had none, and Gbk with the GBK decoding in every other
\* case (GBK clean and Big5 not, both clean, both with errors).
C29_AutoDetection ==
    (disk # None /\ for_bom(disk[1]) = None) =>
        LET bytes == disk[1]
            d     == decode_bytes(bytes, "Auto")
            gbk   == encoding_decode("GBK", bytes)
            big5  == encoding_decode("BIG5", bytes)
        IN  /\ d.encoding \in { "Utf8", "Gbk", "Big5" }
            /\ StrictUtf8(bytes) =>
                   /\ d.encoding = "Utf8"
                   /\ as_bytes(d.text) = bytes
            /\ ~StrictUtf8(bytes) =>
                   /\ d.encoding = "Big5" <=> (gbk.had_errors /\ ~big5.had_errors)
                   /\ d.encoding = "Gbk" <=> ~(gbk.had_errors /\ ~big5.had_errors)
                   /\ d.encoding = "Big5" => d.text = big5.text
                   /\ d.encoding = "Gbk" => d.text = gbk.text

\* A file without BOM that is not valid UTF-8, is clean in GBK and has errors
\* in Big5 (the byte 80) has been loaded with hint Auto as a Gbk document.
C29_Witness ==
    /\ cmd = "load"
    /\ hint = "Auto"
    /\ disk # None
    /\ for_bom(disk[1]) = None
    /\ ~StrictUtf8(disk[1])
    /\ ~encoding_decode("GBK", disk[1]).had_errors
    /\ encoding_decode("BIG5", disk[1]).had_errors
    /\ doc = Some([text |-> encoding_decode("GBK", disk[1]).text, encoding |-> "Gbk"])


\* A step in which the view has committed an edit and queued its descriptor.
QueueStep == cmd' \in { "insert_text", "backspace" } /\ version' # version

\* The descriptor of the edit a QueueStep commits.
QueuedEdit ==
    DescriptorOf(rope, rope', Top(history'.undo).start,
                 Top(history'.undo).deleted, Top(history'.undo).inserted)

\* queue_edit does not reparse: the tree is still the parse of the text it
\* was parsed from, with its nodes moved by the edit, and the timestamp is
\* the current time.
C30_QueueShiftsAndStamps ==
    (QueueStep /\ Sy.language \notin NoGrammar) =>
        /\ reparses' = reparses
        /\ reparsed_at' = reparsed_at
        /\ syntax'[1].pending_since = Some(now)
        /\ syntax'[1].tree # None
        /\ syntax'[1].tree[1].source = Sy.tree[1].source
        /\ Len(syntax'[1].tree[1].nodes) = Len(Sy.tree[1].nodes)
        /\ \A i \in 1..Len(Sy.tree[1].nodes) :
              /\ syntax'[1].tree[1].nodes[i].name = Sy.tree[1].nodes[i].name
              /\ syntax'[1].tree[1].nodes[i].start =
                     edit_offset(Sy.tree[1].nodes[i].start, QueuedEdit)
              /\ syntax'[1].tree[1].nodes[i].end =
                     edit_offset(Sy.tree[1].nodes[i].end, QueuedEdit)

\* Between two queue_edit calls the timestamp stays the latest edit's, until
\* a reparse clears it.
C30_StampIsLatestEdit ==
    ~QueueStep =>
        \/ syntax'[1].pending_since = Sy.pending_since
        \/ syntax'[1].pending_since = None /\ reparses' = reparses + 1

\* A reparse happens in a poll, at least the debounce interval after the
\* latest queue_edit.
C30_NoReparseWithinDebounce ==
    (reparses' # reparses \/ (~QueueStep /\ syntax'[1].tree # Sy.tree)) =>
        /\ PollStep
        /\ Sy.pending_since # None
        /\ now - Sy.pending_since[1] >= DEBOUNCE_MS

\* C30: queue_edit never reparses (the cached tree is only shifted in place)
\* and sets the pending-edit timestamp to the current time, so that with
\* several edits queued the timestamp is the latest edit's, and neither
\* ensure_parsed nor highlight_spans reparses while less than the debounce
\* interval has passed since the latest queue_edit.
C30_DebounceFromLatestEdit ==
    [][ /\ C30_QueueShiftsAndStamps
        /\ C30_StampIsLatestEdit
        /\ C30_NoReparseWithinDebounce ]_vars

\* Edits were queued at 0 and at one millisecond less than the debounce
\* interval; the frame at the debounce interval after the first edit, one
\* millisecond after the second, has not reparsed.
C30_Witness ==
    /\ cmd = "ensure_parsed"
    /\ Sy.language = "Cpp"
    /\ version = 2
    /\ now = DEBOUNCE_MS
    /\ Sy.pending_since = Some(DEBOUNCE_MS - 1)
    /\ reparses = 0
    /\ Sy.tree # None
    /\ Sy.tree[1].source # rope


\* The last call was ensure_parsed or highlight_spans and its parse failed.
FailedPoll ==
    /\ cmd \in { "ensure_parsed", "highlight_spans" }
    /\ parser_result = Some(None)

\* A poll whose parse fails returns ParseFailed, without spans, and leaves
\* the SyntaxState as it was, the marker still set.
C31_FailureKeepsState ==
    FailedPoll' =>
        /\ returned' = "ParseFailed"
        /\ syntax' = syntax
        /\ Sy.pending_since # None
        /\ reparses' = reparses
        /\ spans' = None

\* After a failed poll the next ensure_parsed parses again, and a poll whose
\* parse then succeeds leaves the parse of the buffer as the tree and no
\* marker.
C31_LaterPollRetries ==
    FailedPoll =>
        /\ try_ensure_parsed(Sy, rope, now, None).result = "ParseFailed"
        /\ try_ensure_parsed(Sy, rope, now, Some(parse_with(Sy.language, rope))) =
               [ result |-> "Ok",
                 state  |-> [ Sy EXCEPT !.tree = Some(parse_with(Sy.language, rope)),
                                        !.pending_since = None ] ]
        /\ (/\ cmd' \in { "ensure_parsed", "highlight_spans" }
            /\ parser_result' # None
            /\ parser_result' # Some(None)) =>
              /\ returned' = "Ok"
              /\ syntax'[1].tree = Some(parse_with(Sy.language, rope))
              /\ syntax'[1].pending_since = None
              /\ reparses' = reparses + 1

\* C31: when the reparse inside ensure_parsed fails, the call returns
\* ParseFailed and leaves the state as it was: the cached tree is kept and
\* the pending-edit marker stays set, so that a later ensure_parsed parses
\* again; highlight_spans returns the same error and no spans.
C31_ParseFailureRecoverable ==
    [][ C31_FailureKeepsState /\ C31_LaterPollRetries ]_vars

\* highlight_spans has failed on a parse error with an edit pending: the tree
\* is still the one of the text before the edit.
C31_Witness ==
    /\ cmd = "highlight_spans"
    /\ returned = "ParseFailed"
    /\ parser_result = Some(None)
    /\ spans = None
    /\ Sy.pending_since # None
    /\ Sy.tree # None
    /\ Sy.tree[1].source # rope


\* A set_text whose parse succeeds leaves the parse of the buffer as the
\* tree and no marker.
C32_SetTextParses ==
    (cmd' = "set_text" /\ parser_result' # None /\ parser_result'[1] # None) =>
        /\ returned' = "Ok"
        /\ syntax'[1].tree = Some(parse_with(Sy.language, rope'))
        /\ syntax'[1].tree[1].source = rope'
        /\ syntax'[1].pending_since = None

\* Without marker a poll does not call the parser and changes nothing,
\* whatever the clock is.
C32_PollIdleUntilEdit ==
    (Sy.pending_since = None /\ cmd' \in { "ensure_parsed", "highlight_spans" }) =>
        /\ parser_result' = None
        /\ returned' = "Ok"
        /\ syntax' = syntax
        /\ reparses' = reparses

\* A set_text whose parse fails returns ParseFailed and leaves tree and marker
\* as they were.
C32_SetTextFailureKeepsState ==
    (cmd' = "set_text" /\ parser_result' = Some(None)) =>
        /\ returned' = "ParseFailed"
        /\ syntax' = syntax

\* C32: a successful set_text on a language with a grammar replaces the
\* cached tree by a full parse of the buffer and clears the pending-edit
\* marker, whatever edits were queued before, so that ensure_parsed does
\* nothing until the next queue_edit; a failing set_text returns ParseFailed
\* and changes neither the tree nor the marker.
C32_SetTextBaseline ==
    [][ C32_SetTextParses /\ C32_PollIdleUntilEdit /\ C32_SetTextFailureKeepsState ]_vars

\* An edit was queued, set_text has parsed the edited buffer, and a frame a
\* debounce interval later has found nothing to do: the tree is the parse of
\* the edited buffer although no poll has reparsed.
C32_Witness ==
    /\ cmd = "ensure_parsed"
    /\ returned = "Ok"
    /\ parser_result = None
    /\ version > 0
    /\ rope # text0
    /\ now >= DEBOUNCE_MS
    /\ reparses = 0
    /\ Sy.pending_since = None
    /\ Sy.tree = Some(parse_with("Cpp", rope))


\* The span of node j of the tree for the window: its range cut to the window
\* and its tag; None if the capture has no tag or nothing of it is inside.
SpanOf(node, window) ==
    IF tag_from_capture_name(node.name) = None THEN None
    ELSE IF Max(node.start, window.start) >= Min(node.end, window.end) THEN None
    ELSE Some([ byte_range |-> [ start |-> Max(node.start, window.start),
                                 end   |-> Min(node.end, window.end) ],
                tag        |-> tag_from_capture_name(node.name)[1] ])

\* (a.start, a.end) <= (b.start, b.end), lexicographically.
KeyLeq(a, b) ==
    \/ a.byte_range.start < b.byte_range.start
    \/ a.byte_range.start = b.byte_range.start /\ a.byte_range.end <= b.byte_range.end

\* C33: the list highlight_spans returns is sorted ascending by (start, end),
\* and it holds one span per captured node that has a tag and reaches into the
\* window: spans that overlap or have the same range are all kept, as often
\* as they were captured.
C33_SpansSortedNoneDropped ==
    (spans # None /\ Sy.tree # None) =>
        LET result == spans[1].spans
            window == spans[1].byte_range
            nodes  == Sy.tree[1].nodes
        IN  /\ \A i \in 1..(Len(result) - 1) : KeyLeq(result[i], result[i + 1])
            /\ \A j \in 1..Len(nodes) :
                  SpanOf(nodes[j], window) # None =>
                      Cardinality({ i \in 1..Len(result) :
                                      Some(result[i]) = SpanOf(nodes[j], window) })
                          = Cardinality({ k \in 1..Len(nodes) :
                                            SpanOf(nodes[k], window) = SpanOf(nodes[j], window) })
            /\ Len(result) =
                   Cardinality({ j \in 1..Len(nodes) : SpanOf(nodes[j], window) # None })

\* highlight_spans has returned two overlapping spans from the same start in
\* the order of their ends, the reverse of the order they were captured in.
C33_Witness ==
    /\ cmd = "highlight_spans"
    /\ spans # None
    /\ Sy.tree # None
    /\ Len(spans[1].spans) = 2
    /\ spans[1].spans[1].byte_range.start = spans[1].spans[2].byte_range.start
    /\ spans[1].spans[1].byte_range.end < spans[1].spans[2].byte_range.end
    /\ Some(spans[1].spans[1]) = SpanOf(Sy.tree[1].nodes[2], spans[1].byte_range)
    /\ Some(spans[1].spans[2]) = SpanOf(Sy.tree[1].nodes[1], spans[1].byte_range)


\* A SyntaxState of a language without grammar has no query, no tree and no
\* marker, its calls return Ok without calling a parser, and its
\* highlight_spans returns the empty list.
C34_NoGrammarStaysNoOp ==
    Sy.language \in NoGrammar =>
        /\ Sy.query = None
        /\ Sy.tree = None
        /\ Sy.pending_since = None
        /\ returned = "Ok"
        /\ parser_result = None
        /\ cmd = "highlight_spans" => (spans # None /\ spans[1].spans = <<>>)
        /\ \A parsed \in ParserResults(Sy.language, rope) :
              /\ try_set_text(Sy, rope, parsed) = [result |-> "Ok", state |-> Sy]
              /\ try_ensure_parsed(Sy, rope, now, parsed) = [result |-> "Ok", state |-> Sy]

\* A highlight_spans call that ends without query or without tree returns
\* the empty list unless its reparse failed: the lack of a query or of a tree
\* is not an error.
C34_EmptyWithoutQueryOrTree ==
    (cmd = "highlight_spans" /\ (Sy.query = None \/ Sy.tree = None)
        /\ parser_result # Some(None)) =>
        /\ returned = "Ok"
        /\ spans # None
        /\ spans[1].spans = <<>>

\* C34: a SyntaxState of a language without grammar (Markdown, PlainText)
\* stays in the no-op variant: after any sequence of set_text, queue_edit,
\* ensure_parsed and highlight_spans its tree is absent, no pending-edit
\* marker is set, every call has succeeded and highlight_spans has returned an
\* empty list; and in general highlight_spans returns an empty list, not an
\* error, when no compiled query or no tree exists (the lack of either is no
\* error; a reparse that fails is reported as C31 says).
C34_NoOpVariant ==
    C34_NoGrammarStaysNoOp /\ C34_EmptyWithoutQueryOrTree

\* After edits, a set_text and a debounce interval, highlight_spans on a
\* PlainText document has returned the empty list.
C34_Witness ==
    /\ cmd = "highlight_spans"
    /\ Sy.language = "PlainText"
    /\ version > 0
    /\ now >= DEBOUNCE_MS
    /\ len_chars(rope) > 0
    /\ spans # None
    /\ spans[1].byte_range = [start |-> 0, end |-> MaxSyntaxLen]
    /\ spans[1].spans = <<>>
    /\ returned = "Ok"


\* State Edited: an edit is pending.
EditedState == Sy.pending_since # None

\* State Parsed: no edit is pending and the tree is a parse of the buffer.
ParsedState ==
    /\ Sy.pending_since = None
    /\ Sy.tree = Some(parse_with(Sy.language, rope))

\* C35: the syntax state machine has no terminal or stuck state: from Edited,
\* with the view calling ensure_parsed frame after frame and the parser
\* succeeding, either a further edit is queued or eventually the marker is
\* cleared and the tree is a parse of the current buffer (Parsed); and from
\* Parsed every queue_edit leads back to Edited.
C35_EditedLeadsToParsed ==
    /\ \A v \in 0..MaxVersion :
          (EditedState /\ version = v) ~> ((ParsedState /\ version = v) \/ version # v)
    /\ [][ (ParsedState /\ QueueStep /\ Sy.language \notin NoGrammar) => EditedState' ]_vars

\* A frame has reparsed the second of two edits, which was queued from state
\* Parsed after the first had been reparsed.
C35_Witness ==
    /\ cmd = "ensure_parsed"
    /\ ParsedState
    /\ Sy.language \notin NoGrammar
    /\ version = 2
    /\ reparses = 2


\* C36: within one Editor the version identifies the content: the version
\* never decreases, and a step that leaves the version alone leaves the
\* buffer text alone, so two states of one command sequence with the same
\* version have the same text (they are joined by steps that keep the
\* version); a consumer comparing versions never takes changed text for
\* unchanged.
C36_VersionIdentifiesContent ==
    [][ /\ version' >= version
        /\ version' = version => rope' = rope
        /\ rope' # rope => version' = version + 1 ]_vars

\* An undo has brought back the text the editor was constructed with, under
\* a later version.
C36_Witness ==
    /\ cmd = "undo"
    /\ rope = from_text(text0).rope
    /\ version = 2
    /\ history.redo # <<>>


\* The buffer holds the text t at the char range [start, start + |t|).
HoldsAt(start, t) ==
    /\ start + Len(t) <= len_chars(rope)
    /\ slice(rope, start, start + Len(t)) = t

\* C37: in every reachable editor state the history matches the buffer: the
\* buffer holds the inserted text of the undo stack's top record at the
\* record's start, and the deleted text of the redo stack's top record at that
\* record's start; so undo and redo remove exactly the characters their record
\* describes, at offsets inside the buffer.
C37_HistoryMatchesBuffer ==
    /\ history.undo # <<>> =>
          HoldsAt(Top(history.undo).start, Top(history.undo).inserted)
    /\ history.redo # <<>> =>
          HoldsAt(Top(history.redo).start, Top(history.redo).deleted)

\* After an undo both stacks hold a record, the one on top of the undo stack
\* with inserted text and the one on top of the redo stack with deleted text.
C37_Witness ==
    /\ cmd = "undo"
    /\ history.undo # <<>>
    /\ history.redo # <<>>
    /\ Top(history.undo).inserted # <<>>
    /\ Top(history.redo).deleted # <<>>
    /\ Top(history.redo).start > 0


\* C38: save results are credited to the document that was saved: whenever a
\* Saved or Failed message has set a document's last_saved_version or cleared
\* its pending_save_version, the message answers a request made for that same
\* document, whatever tabs were closed or replaced by a load in between.
C38_ResultCreditsItsDocument ==
    \A i \in 1..Len(documents) :
        documents[i].result_of \in { None, Some(documents[i].id) }

\* C39: autosave never writes to a document's path before the document's load
\* has completed: no save request carries the buffer of a placeholder, and no
\* file holds text typed into one.
C39_NoSaveBeforeLoad ==
    /\ \A i \in 1..Len(save_tx) : save_tx[i].loaded
    /\ \A p \in Paths : fs[p] = FileText \/ Len(fs[p]) > Len(FileText)


\* The events a step forwards.
Forwarded == SubSeq(debounced', Len(debounced) + 1, Len(debounced'))

====
